---- MODULE Spec2Model ----
(***************************************************************************)
(* Eldora: virtual tree, Renderer, Reconciler (diff), Keyed-List Differ    *)
(* and the Driver (App), modelled from the TypeScript sources.             *)
(*                                                                         *)
(* JavaScript objects that the code mutates in place (virtual nodes, DOM   *)
(* nodes) are modelled as values; an operator that mutates its argument    *)
(* returns the mutated value.  DOM nodes and AbortControllers carry an id  *)
(* taken from a counter, so object identity is observable.                 *)
(***************************************************************************)
EXTENDS Integers, Sequences, FiniteSets, TLC

(***************************************************************************)
(* Bounds of the exploration.                                              *)
(***************************************************************************)
MaxDispatch == 2
MaxKeys == 3
MaxChildren == 2
MaxAttach == 2

(***************************************************************************)
(* JavaScript values that occur as property values.                        *)
(*   t = "str" | "num" | "bool" | "fn" | "undef" | "null" | "obj" | "node" *)
(*       | "arr"                                                           *)
(*   v = the scalar (as text) or the function's identity                   *)
(*   o = the entries of an object value (style maps), in insertion order,  *)
(*       the virtual node of a "node" value, the items of an array         *)
(***************************************************************************)
Str(s) == [t |-> "str", v |-> s, o |-> <<>>]
Num(s) == [t |-> "num", v |-> s, o |-> <<>>]
Bool(s) == [t |-> "bool", v |-> s, o |-> <<>>]
Fn(s) == [t |-> "fn", v |-> s, o |-> <<>>]
Obj(entries) == [t |-> "obj", v |-> "", o |-> entries]
Undefined == [t |-> "undef", v |-> "", o |-> <<>>]
Null == [t |-> "null", v |-> "null", o |-> <<>>]
Node(n) == [t |-> "node", v |-> "", o |-> <<n>>]
Arr(items) == [t |-> "arr", v |-> "", o |-> items]
Prop(k, val) == [k |-> k, v |-> val]

\* JavaScript truthiness of a value
Truthy(x) ==
  CASE x.t = "undef" -> FALSE
    [] x.t = "null" -> FALSE
    [] x.t = "str" -> x.v # ""
    [] x.t = "num" -> x.v # "0"
    [] x.t = "bool" -> x.v = "true"
    [] OTHER -> TRUE

\* String(x)
String(x) ==
  CASE x.t = "undef" -> "undefined"
    [] x.t = "obj" -> "[object Object]"
    [] x.t = "fn" -> "function"
    [] OTHER -> x.v

\* a !== b : scalars and functions by value/identity, two object literals
\* built by two evaluations of the view are never the same object
StrictNotEqual(a, b) == IF a.t = "obj" \/ b.t = "obj" THEN TRUE ELSE a # b

RECURSIVE JSONEntries(_)
\* JSON.stringify(x): the token sequence of the serialisation.  Entries whose
\* value is undefined or a function are dropped; the entry order is kept.
JSONstringify(x) ==
  CASE x.t = "undef" -> <<"undefined">>
    [] x.t = "fn" -> <<"undefined">>
    [] x.t = "str" -> <<"\"", x.v, "\"">>
    [] x.t = "obj" -> <<"{">> \o JSONEntries(x.o) \o <<"}">>
    [] OTHER -> <<x.v>>
JSONEntries(es) ==
  IF es = <<>> THEN <<>>
  ELSE IF Head(es).v.t \in {"undef", "fn"} THEN JSONEntries(Tail(es))
  ELSE <<"\"", Head(es).k, "\"", ":">> \o JSONstringify(Head(es).v)
         \o <<",">> \o JSONEntries(Tail(es))

\* Object.keys(props)
ObjectKeys(props) == [i \in 1..Len(props) |-> props[i].k]
HasKey(props, k) == \E i \in 1..Len(props) : props[i].k = k
\* props[key]
Get(props, k) ==
  IF HasKey(props, k)
  THEN props[CHOOSE i \in 1..Len(props) : props[i].k = k].v
  ELSE Undefined

\* key.startsWith('on')
StartsWithOn(k) == k \in {"onClick", "onInput"}
\* key.slice(2).toLowerCase()
EventName(k) ==
  CASE k = "onClick" -> "click"
    [] k = "onInput" -> "input"
    [] OTHER -> k

(***************************************************************************)
(* Virtual nodes (core.ts VPrimitive, VElement, VFunction).  One record    *)
(* shape for the three kinds; a field a kind does not have is empty.       *)
(* key = "" stands for undefined (both are falsy in `child.key && ...`).   *)
(* topNode is <<>> (undefined) or <<expansion>>.  controller = 0: none.    *)
(* value is a JavaScript value: the scalar of a Primitive, Str(tag) of an  *)
(* Element, Fn(name) of a Component.                                       *)
(***************************************************************************)
NoKey == ""
VPrimitive(val) ==
  [type |-> "primitive", value |-> val, props |-> <<>>, children |-> <<>>,
   controller |-> 0, topNode |-> <<>>, key |-> NoKey]
VElement(tag, props, children, key) ==
  [type |-> "html", value |-> Str(tag), props |-> props, children |-> children,
   controller |-> 0, topNode |-> <<>>, key |-> key]
VFunction(fn, props, key) ==
  [type |-> "function", value |-> Fn(fn), props |-> props, children |-> <<>>,
   controller |-> 0, topNode |-> <<>>, key |-> key]

(***************************************************************************)
(* Render-target nodes (DOM Text and HTMLElement).                         *)
(***************************************************************************)
TextNode(id, s) ==
  [id |-> id, kind |-> "text", tag |-> "", nodeValue |-> s, attrs |-> {},
   style |-> {}, value |-> "", checked |-> FALSE, listeners |-> {},
   children |-> <<>>]
ElementNode(id, tag) ==
  [id |-> id, kind |-> "element", tag |-> tag, nodeValue |-> "", attrs |-> {},
   style |-> {}, value |-> "", checked |-> FALSE, listeners |-> {},
   children |-> <<>>]

\* element.setAttribute(name, value)
SetAttribute(el, name, s) ==
  [el EXCEPT !.attrs = {a \in @ : a[1] # name} \cup {<<name, s>>}]
RECURSIVE AssignEntries(_, _)
AssignEntries(style, es) ==
  IF es = <<>> THEN style
  ELSE AssignEntries({d \in style : d[1] # Head(es).k}
                       \cup {<<Head(es).k, String(Head(es).v)>>}, Tail(es))
\* Object.assign(element.style, value)
ObjectAssignStyle(el, val) ==
  IF val.t = "obj" THEN [el EXCEPT !.style = AssignEntries(@, val.o)] ELSE el
\* element.addEventListener(type, handler, { signal }): nothing is added
\* for a null callback, for an aborted signal, or when the same (type,
\* callback) pair is already registered
AddEventListener(el, type, handler, signal, aborted) ==
  IF handler.t = "undef" \/ signal \in aborted
     \/ (\E l \in el.listeners : l.type = type /\ l.handler = handler.v)
  THEN el
  ELSE [el EXCEPT !.listeners =
          @ \cup {[type |-> type, handler |-> handler.v, signal |-> signal]}]
\* controller.abort(): every listener registered with the signal is removed
AbortOn(el, signal) ==
  [el EXCEPT !.listeners = {l \in @ : l.signal # signal}]

(***************************************************************************)
(* The world threaded through one synchronous call: the id counter for     *)
(* created objects, the aborted AbortControllers, whether an exception     *)
(* has been thrown (the call stops there, its earlier writes stay), and    *)
(* what the call did: component functions invoked, elements whose props    *)
(* were diffed, controllers of virtual nodes dropped from the old tree,    *)
(* the (old, new) pairs handed to diff, the steps of the main loop of      *)
(* diffChildren, what its first loop left and how many passes its loops    *)
(* made.                                                                   *)
(***************************************************************************)
World(nextId, aborted) ==
  [nextId |-> nextId, aborted |-> aborted, err |-> FALSE, calls |-> <<>>,
   rebound |-> <<>>, dropped |-> {}, pairs |-> <<>>, steps |-> <<>>,
   removals |-> <<>>, loops |-> <<>>]
Throw(w) == [w EXCEPT !.err = TRUE]

\* normalizeChildren for a single scalar child or undefined
NormalizeScalar(val) ==
  IF ~Truthy(val) THEN <<>>
  ELSE IF val.t \in {"str", "num"} THEN <<VPrimitive(val)>>
  ELSE <<>>

\* props without the given key (`delete props.children`, rest patterns)
RECURSIVE Without(_, _)
Without(props, k) ==
  IF props = <<>> THEN <<>>
  ELSE IF Head(props).k = k THEN Without(Tail(props), k)
  ELSE <<Head(props)>> \o Without(Tail(props), k)

\* The component functions of the modelled application, as the JSX they
\* return (controllers not yet created):
\*   Item(props) = <li onClick={props.onClick}>{props.value}</li>
\*   Box(props)  = props.alt ? <span>{props.value}</span>
\*                           : <div>{props.value}</div>
ComponentFn(fn, props) ==
  IF fn = "Item"
  THEN VElement("li",
                IF HasKey(props, "onClick")
                THEN <<Prop("onClick", Get(props, "onClick"))>> ELSE <<>>,
                NormalizeScalar(Get(props, "value")), NoKey)
  ELSE VElement(IF Truthy(Get(props, "alt")) THEN "span" ELSE "div",
                <<>>, NormalizeScalar(Get(props, "value")), NoKey)

\* normalizeChildren(children): children is undefined, a string, a number,
\* a virtual node or an array of those
normalizeChildren(children) ==
  IF ~Truthy(children) THEN <<>>
  ELSE LET arrayChildren ==
             IF children.t = "arr" THEN children.o ELSE <<children>>
       IN [i \in 1..Len(arrayChildren) |->
             IF arrayChildren[i].t \in {"str", "num"}
             THEN VPrimitive(arrayChildren[i])
             ELSE arrayChildren[i].o[1]]

\* parseJSXToEldoraNode without the final throw: any type that is not a
\* function is taken for a tag
parseJSXToEldoraNode_NoThrow(w, type, props, key) ==
  IF type.t = "fn"
  THEN [w |-> w, node |-> <<VFunction(type.v, props, key)>>, props |-> props]
  ELSE [w |-> [w EXCEPT !.nextId = @ + 1],
        node |-> <<[VElement(type.v, Without(props, "children"),
                             normalizeChildren(Get(props, "children")), key)
                      EXCEPT !.controller = w.nextId]>>,
        props |-> Without(props, "children")]

\* parseJSXToEldoraNode(type, props, key): the node returned (<<>> when it
\* throws) and the props bag as the call leaves it
parseJSXToEldoraNode(w, type, props, key) ==
  IF type.t = "fn"
  THEN [w |-> w, node |-> <<VFunction(type.v, props, key)>>, props |-> props]
  ELSE IF type.t = "str"
  THEN [w |-> [w EXCEPT !.nextId = @ + 1],
        node |-> <<[VElement(type.v, Without(props, "children"),
                             normalizeChildren(Get(props, "children")), key)
                      EXCEPT !.controller = w.nextId]>>,
        props |-> Without(props, "children")]
  ELSE [w |-> Throw(w), node |-> <<>>, props |-> props]

\* parseJSXToEldoraNode creates `new AbortController()` for every Element
\* node: the construction of a tree gives each Element a fresh controller.
RECURSIVE Construct(_, _), ConstructAll(_, _, _)
Construct(w, tmpl) ==
  IF tmpl.type = "html"
  THEN LET Built(cs) ==
             [w |-> cs.w,
              node |-> [tmpl EXCEPT !.controller = w.nextId,
                                    !.children = cs.nodes]]
       IN Built(ConstructAll([w EXCEPT !.nextId = @ + 1], tmpl.children, <<>>))
  ELSE [w |-> w, node |-> tmpl]
ConstructAll(w, tmpls, acc) ==
  IF tmpls = <<>> THEN [w |-> w, nodes |-> acc]
  ELSE LET Rest(c) == ConstructAll(c.w, Tail(tmpls), Append(acc, c.node))
       IN Rest(Construct(w, Head(tmpls)))

\* one iteration of the Object.entries(node.props).forEach of render
RenderProp(el, k, val, signal, aborted) ==
  CASE k = "style" -> ObjectAssignStyle(el, val)
    [] k = "className" -> SetAttribute(el, "class", String(val))
    [] k = "value" -> [el EXCEPT !.value = String(val)]
    [] k = "checked" -> [el EXCEPT !.checked = Truthy(val)]
    [] StartsWithOn(k) -> AddEventListener(el, EventName(k), val, signal, aborted)
    [] OTHER -> SetAttribute(el, k, String(val))
RECURSIVE RenderProps(_, _, _, _)
RenderProps(el, props, signal, aborted) ==
  IF props = <<>> THEN el
  ELSE RenderProps(RenderProp(el, Head(props).k, Head(props).v, signal, aborted),
                   Tail(props), signal, aborted)

\* render(node): returns the created DOM node `el`, the virtual node as
\* render leaves it (topNode of Component nodes set) and the world
RECURSIVE render(_, _), RenderChildren(_, _, _, _)
render(w, node) ==
  CASE node.type = "primitive" ->
         [w |-> [w EXCEPT !.nextId = @ + 1], node |-> node,
          el |-> TextNode(w.nextId, String(node.value))]
    [] node.type = "html" ->
         LET Filled(element, cs) ==
               [w |-> cs.w, node |-> [node EXCEPT !.children = cs.nodes],
                el |-> [element EXCEPT !.children = cs.els]]
         IN Filled(RenderProps(ElementNode(w.nextId, node.value.v),
                               node.props, node.controller, w.aborted),
                   RenderChildren([w EXCEPT !.nextId = @ + 1],
                                  node.children, <<>>, <<>>))
    [] OTHER ->
         LET Expanded(r) ==
               [w |-> r.w, node |-> [node EXCEPT !.topNode = <<r.node>>],
                el |-> r.el]
             Called(topNode) == Expanded(render(topNode.w, topNode.node))
         IN Called(Construct([w EXCEPT !.calls = Append(@, node.value.v)],
                             ComponentFn(node.value.v, node.props)))
RenderChildren(w, children, nodes, els) ==
  IF children = <<>> THEN [w |-> w, nodes |-> nodes, els |-> els]
  ELSE LET Rest(r) == RenderChildren(r.w, Tail(children),
                                     Append(nodes, r.node), Append(els, r.el))
       IN Rest(render(w, Head(children)))

(***************************************************************************)
(* DOM child-list operations.  null is the id 0.                           *)
(***************************************************************************)
RemoveAt(s, i) == SubSeq(s, 1, i - 1) \o SubSeq(s, i + 1, Len(s))
IndexOfId(s, id) == CHOOSE i \in 1..Len(s) : s[i].id = id
\* node.nextSibling of the child at index i, as an id
NextSibling(s, i) == IF i < Len(s) THEN s[i + 1].id ELSE 0
\* parent.insertBefore(node, ref) for a node that is a child of parent:
\* the node is first removed from its place, then put before ref (or last)
InsertBefore(s, id, ref) ==
  LET node == s[IndexOfId(s, id)]
      rest == RemoveAt(s, IndexOfId(s, id))
  IN IF ref = 0 THEN Append(rest, node)
     ELSE IF ref = id THEN s
     ELSE LET r == IndexOfId(rest, ref)
          IN SubSeq(rest, 1, r - 1) \o <<node>> \o SubSeq(rest, r, Len(rest))

\* domChildSwap with the second insertBefore of the general case left out
domChildSwap_OneInsert(s, destination, from) ==
  LET fromElement == s[from].id
      destinationElement == s[destination].id
      fromNext == NextSibling(s, from)
      destNext == NextSibling(s, destination)
  IN IF fromNext = destinationElement
     THEN InsertBefore(s, destinationElement, fromElement)
     ELSE IF destNext = fromElement
     THEN InsertBefore(s, fromElement, destinationElement)
     ELSE InsertBefore(s, fromElement, destNext)

\* domChildSwap(parent, destination, from) on the child list of parent;
\* indices are 1-based here
domChildSwap(s, destination, from) ==
  LET fromElement == s[from].id
      destinationElement == s[destination].id
      fromNext == NextSibling(s, from)
      destNext == NextSibling(s, destination)
  IN IF fromNext = destinationElement
     THEN InsertBefore(s, destinationElement, fromElement)
     ELSE IF destNext = fromElement
     THEN InsertBefore(s, fromElement, destinationElement)
     ELSE InsertBefore(InsertBefore(s, fromElement, destNext),
                       destinationElement, fromNext)

(***************************************************************************)
(* Key maps of diffChildren: Map<string, number> as a function.            *)
(***************************************************************************)
EmptyMap == [k \in {} |-> 0]
MapSet(m, k, i) == [x \in DOMAIN m \cup {k} |-> IF x = k THEN i ELSE m[x]]
MapDelete(m, k) == [x \in DOMAIN m \ {k} |-> m[x]]
MapHas(m, k) == k \in DOMAIN m
RECURSIVE KeyMapFrom(_, _, _)
\* children.forEach((child, i) => child.key && map.set(child.key, i))
KeyMapFrom(children, i, m) ==
  IF i > Len(children) THEN m
  ELSE KeyMapFrom(children, i + 1,
                  IF children[i].key # NoKey THEN MapSet(m, children[i].key, i)
                  ELSE m)

\* the AbortControllers owned by the Elements of a virtual subtree,
\* a Component node's expansion included
RECURSIVE Controllers(_)
Controllers(node) ==
  (IF node.type = "html" THEN {node.controller} ELSE {})
    \cup UNION {Controllers(node.children[i]) : i \in 1..Len(node.children)}
    \cup UNION {Controllers(node.topNode[i]) : i \in 1..Len(node.topNode)}
ControllersOf(nodes) == UNION {Controllers(nodes[i]) : i \in 1..Len(nodes)}

(***************************************************************************)
(* The Reconciler.  Every operator takes the world first and returns the   *)
(* world, the old virtual node (or children array) as the call leaves it   *)
(* and the DOM node as the call leaves it.  After a throw nothing more is  *)
(* written.                                                                *)
(***************************************************************************)
\* keys = new Set(Object.keys(old.props).concat(Object.keys(new.props))),
\* in insertion order
RECURSIVE Dedup(_, _)
Dedup(ks, acc) ==
  IF ks = <<>> THEN acc
  ELSE Dedup(Tail(ks),
             IF \E i \in 1..Len(acc) : acc[i] = Head(ks) THEN acc
             ELSE Append(acc, Head(ks)))
UnionKeys(oldProps, newProps) ==
  Dedup(ObjectKeys(oldProps) \o ObjectKeys(newProps), <<>>)

\* keys.forEach iteration whose style case replaces the style (clears the
\* declarations the new map lacks) instead of merging
DiffProp_StyleReplace(el, key, oldValue, newValue, signal, aborted) ==
  IF StartsWithOn(key)
  THEN IF Truthy(newValue)
       THEN AddEventListener(el, EventName(key), newValue, signal, aborted)
       ELSE el
  ELSE IF key = "className"
  THEN IF StrictNotEqual(oldValue, newValue)
       THEN SetAttribute(el, "class", String(newValue)) ELSE el
  ELSE IF key = "style"
  THEN IF JSONstringify(oldValue) # JSONstringify(newValue)
       THEN ObjectAssignStyle([el EXCEPT !.style = {}], newValue) ELSE el
  ELSE IF StrictNotEqual(oldValue, newValue)
  THEN IF key = "checked" THEN [el EXCEPT !.checked = Truthy(newValue)]
       ELSE IF key = "value" THEN [el EXCEPT !.value = String(newValue)]
       ELSE SetAttribute(el, key, String(newValue))
  ELSE el

\* one iteration of keys.forEach in diffProps
DiffProp(el, key, oldValue, newValue, signal, aborted) ==
  IF StartsWithOn(key)
  THEN IF Truthy(newValue)
       THEN AddEventListener(el, EventName(key), newValue, signal, aborted)
       ELSE el
  ELSE IF key = "className"
  THEN IF StrictNotEqual(oldValue, newValue)
       THEN SetAttribute(el, "class", String(newValue)) ELSE el
  ELSE IF key = "style"
  THEN IF JSONstringify(oldValue) # JSONstringify(newValue)
       THEN ObjectAssignStyle(el, newValue) ELSE el
  ELSE IF StrictNotEqual(oldValue, newValue)
  THEN IF key = "checked" THEN [el EXCEPT !.checked = Truthy(newValue)]
       ELSE IF key = "value" THEN [el EXCEPT !.value = String(newValue)]
       ELSE SetAttribute(el, key, String(newValue))
  ELSE el
RECURSIVE DiffPropKeys(_, _, _, _, _, _)
DiffPropKeys(el, keys, oldProps, newProps, signal, aborted) ==
  IF keys = <<>> THEN el
  ELSE DiffPropKeys(DiffProp(el, Head(keys), Get(oldProps, Head(keys)),
                             Get(newProps, Head(keys)), signal, aborted),
                    Tail(keys), oldProps, newProps, signal, aborted)

\* diffProps that aborts the controller and keeps it (no fresh token)
diffProps_NoFreshToken(w, oldNode, newNode, element) ==
  IF oldNode.type # "html" THEN [w |-> Throw(w), old |-> oldNode, el |-> element]
  ELSE
    LET aborted == w.aborted \cup {oldNode.controller}
        el1 == AbortOn(element, oldNode.controller)
        el2 == DiffPropKeys(el1, UnionKeys(oldNode.props, newNode.props),
                            oldNode.props, newNode.props, oldNode.controller,
                            aborted)
    IN [w |-> [w EXCEPT !.aborted = aborted,
                        !.rebound = Append(@, element.id)],
        old |-> [oldNode EXCEPT !.props = newNode.props],
        el |-> el2]
\* diffProps that replaces the controller without aborting the old one
diffProps_NoAbort(w, oldNode, newNode, element) ==
  IF oldNode.type # "html" THEN [w |-> Throw(w), old |-> oldNode, el |-> element]
  ELSE
    LET fresh == w.nextId
        el2 == DiffPropKeys(element, UnionKeys(oldNode.props, newNode.props),
                            oldNode.props, newNode.props, fresh, w.aborted)
    IN [w |-> [w EXCEPT !.nextId = @ + 1, !.rebound = Append(@, element.id)],
        old |-> [oldNode EXCEPT !.controller = fresh, !.props = newNode.props],
        el |-> el2]

\* diffProps that merges the new props into the recorded ones instead of
\* replacing the record
diffProps_MergeRecord(w, oldNode, newNode, element) ==
  IF oldNode.type # "html" THEN [w |-> Throw(w), old |-> oldNode, el |-> element]
  ELSE
    LET aborted == w.aborted \cup {oldNode.controller}
        fresh == w.nextId
        el1 == AbortOn(element, oldNode.controller)
        el2 == DiffPropKeys(el1, UnionKeys(oldNode.props, newNode.props),
                            oldNode.props, newNode.props, fresh, aborted)
        kept == SelectSeq(oldNode.props, LAMBDA e : ~HasKey(newNode.props, e.k))
    IN [w |-> [w EXCEPT !.aborted = aborted, !.nextId = @ + 1,
                        !.rebound = Append(@, element.id)],
        old |-> [oldNode EXCEPT !.controller = fresh,
                                !.props = kept \o newNode.props],
        el |-> el2]

\* diffProps(oldNode, newNode, element).  Object.keys(oldNode.props) throws
\* when oldNode is a Primitive (no props), oldNode.controller.abort() throws
\* when oldNode is a Component (no controller).
diffProps(w, oldNode, newNode, element) ==
  IF oldNode.type # "html" THEN [w |-> Throw(w), old |-> oldNode, el |-> element]
  ELSE
    LET aborted == w.aborted \cup {oldNode.controller}
        fresh == w.nextId
        el1 == AbortOn(element, oldNode.controller)
        el2 == DiffPropKeys(el1, UnionKeys(oldNode.props, newNode.props),
                            oldNode.props, newNode.props, fresh, aborted)
    IN [w |-> [w EXCEPT !.aborted = aborted, !.nextId = @ + 1,
                        !.rebound = Append(@, element.id)],
        old |-> [oldNode EXCEPT !.controller = fresh, !.props = newNode.props],
        el |-> el2]

\* diffPrimitive that compares the string forms of the two values
diffPrimitive_StringCompare(w, oldNode, newNode, element) ==
  IF String(oldNode.value) # String(newNode.value)
  THEN [w |-> w, old |-> [oldNode EXCEPT !.value = newNode.value],
        el |-> IF element.kind = "text"
               THEN [element EXCEPT !.nodeValue = String(newNode.value)]
               ELSE element]
  ELSE [w |-> w, old |-> oldNode, el |-> element]

\* diffPrimitive(oldNode, newNode, element); writing nodeValue of an
\* Element has no effect
diffPrimitive(w, oldNode, newNode, element) ==
  IF StrictNotEqual(oldNode.value, newNode.value)
  THEN [w |-> w, old |-> [oldNode EXCEPT !.value = newNode.value],
        el |-> IF element.kind = "text"
               THEN [element EXCEPT !.nodeValue = String(newNode.value)]
               ELSE element]
  ELSE [w |-> w, old |-> oldNode, el |-> element]

\* needsReplacement that compares the kinds only
NeedsReplacement_KindOnly(oldChild, newChild) == oldChild.type # newChild.type
\* needsReplacement with the tag comparison of Elements inverted
NeedsReplacement_TagInverted(oldChild, newChild) ==
  \/ oldChild.type # newChild.type
  \/ (oldChild.type = "html" /\ oldChild.value = newChild.value)
  \/ (oldChild.type = "function" /\ oldChild.value # newChild.value)

\* oldChild.type !== newChild.type || ... of diffChildren
NeedsReplacement(oldChild, newChild) ==
  \/ oldChild.type # newChild.type
  \/ (oldChild.type = "html" /\ oldChild.value # newChild.value)
  \/ (oldChild.type = "function" /\ oldChild.value # newChild.value)

\* the (old, new) pair of one diff call and the branch that made the call
Pair(via, oldVNode, newVNode) ==
  [via |-> via, otype |-> oldVNode.type, ovalue |-> oldVNode.value,
   ntype |-> newVNode.type, nvalue |-> newVNode.value]

RECURSIVE diff(_, _, _, _, _), diffElement(_, _, _, _), diffFunction(_, _, _, _)
RECURSIVE diffChildren(_, _, _, _), AppendAll(_, _, _, _)
RECURSIVE KeyedRemoval(_, _, _, _, _, _), MainLoop(_, _, _, _, _, _, _)

\* diff(oldVNode, newVNode, element): dispatch on the NEW node's type.
\* `via` names the caller's branch and is recorded only.
diff(w, oldVNode, newVNode, element, via) ==
  LET w1 == [w EXCEPT !.pairs = Append(@, Pair(via, oldVNode, newVNode))]
  IN CASE newVNode.type = "primitive" ->
            diffPrimitive(w1, oldVNode, newVNode, element)
       [] newVNode.type = "html" ->
            diffElement(w1, oldVNode, newVNode, element)
       [] OTHER -> diffFunction(w1, oldVNode, newVNode, element)

diffElement(w, oldNode, newNode, element) ==
  LET WithChildren(p, c) ==
        [w |-> c.w, old |-> [p.old EXCEPT !.children = c.old], el |-> c.el]
      Children(p) ==
        IF p.w.err THEN p
        ELSE WithChildren(p, diffChildren(p.w, p.old.children,
                                          newNode.children, p.el))
  IN Children(diffProps(w, oldNode, newNode, element))

\* diffFunction(oldNode, newNode, element).  oldNode.props.lazy throws when
\* oldNode is a Primitive; diff(undefined, ...) throws in diffProps when
\* oldNode has no topNode.
diffFunction(w, oldNode, newNode, element) ==
  IF oldNode.type = "primitive"
  THEN [w |-> Throw(w), old |-> oldNode, el |-> element]
  ELSE IF Truthy(Get(oldNode.props, "lazy"))
          /\ JSONstringify(Obj(oldNode.props)) = JSONstringify(Obj(newNode.props))
  THEN [w |-> w, old |-> oldNode, el |-> element]
  ELSE
    LET old1 == [oldNode EXCEPT !.props = newNode.props]
        Expanded(d) ==
          [w |-> d.w, old |-> [old1 EXCEPT !.topNode = <<d.old>>], el |-> d.el]
        Called(newTopNode) ==
          IF oldNode.topNode = <<>>
          THEN [w |-> Throw(newTopNode.w), old |-> old1, el |-> element]
          ELSE Expanded(diff(newTopNode.w, oldNode.topNode[1], newTopNode.node,
                           element, "expansion"))
    IN Called(Construct([w EXCEPT !.calls = Append(@, newNode.value.v)],
                        ComponentFn(newNode.value.v, newNode.props)))

\* newChildren.forEach(child => { render; oldChildren.push; appendChild })
AppendAll(w, oldChildren, newChildren, parentDOM) ==
  IF newChildren = <<>> THEN [w |-> w, old |-> oldChildren, el |-> parentDOM]
  ELSE LET Rest(r) ==
             AppendAll(r.w, Append(oldChildren, r.node), Tail(newChildren),
                       [parentDOM EXCEPT !.children = Append(@, r.el)])
       IN Rest(render(w, Head(newChildren)))

\* a render-target node represents a virtual node: a text node with the
\* string form of a Primitive's value, an element with the tag of an
\* Element whose children represent the Element's children in order, the
\* node of the expansion of a Component
RECURSIVE Represents(_, _)
Represents(el, node) ==
  CASE node.type = "primitive" ->
         el.kind = "text" /\ el.nodeValue = String(node.value)
    [] node.type = "html" ->
         /\ el.kind = "element" /\ el.tag = node.value.v
         /\ Len(el.children) = Len(node.children)
         /\ \A i \in 1..Len(el.children) :
              Represents(el.children[i], node.children[i])
    [] OTHER -> node.topNode # <<>> /\ Represents(el, node.topNode[1])
\* the parent has as many children as the old sequence has entries and its
\* child at every index represents the old child at that index
ChildrenAligned(oldChildren, kids) ==
  /\ Len(kids) = Len(oldChildren)
  /\ \A i \in 1..Len(kids) : Represents(kids[i], oldChildren[i])

\* ids of a child list, in order
RECURSIVE IdsOf(_)
IdsOf(els) == IF els = <<>> THEN <<>> ELSE <<Head(els).id>> \o IdsOf(Tail(els))
\* record of the first loop of diffChildren on one parent: the keys of the
\* old children and the parent's child ids before and after it, the keys
\* of the new children, the old key map it leaves, how many steps the main
\* loop had made on the parent by then, and whether the parent's children
\* were aligned with the old sequence before and after it
Removal(oldChildren, newChildren, parentDOM, r) ==
  [r.w EXCEPT !.removals = Append(@,
     [parent |-> parentDOM.id,
      preKeys |-> [i \in 1..Len(oldChildren) |-> oldChildren[i].key],
      preIds |-> IdsOf(parentDOM.children),
      aligned |-> ChildrenAligned(oldChildren, parentDOM.children)
                    /\ ChildrenAligned(r.old, r.el.children),
      postKeys |-> [i \in 1..Len(r.old) |-> r.old[i].key],
      postIds |-> IdsOf(r.el.children),
      newKeys |-> {newChildren[i].key : i \in 1..Len(newChildren)} \ {NoKey},
      km |-> r.km,
      steps |-> Cardinality({k \in 1..Len(r.w.steps) :
                              r.w.steps[k].parent = parentDOM.id})])]

\* record of the two loops of diffChildren on one parent: the lengths of
\* the old sequence when the call began, after the first loop and after
\* the main loop, the length of the new sequence, and the passes each
\* loop made (one pass of the first loop either removes an entry or
\* advances i; one pass of the main loop advances i)
Loops(oldChildren, newChildren, parentDOM, k, m) ==
  [m.w EXCEPT !.loops = Append(@,
     [parent |-> parentDOM.id, err |-> m.w.err,
      preLen |-> Len(oldChildren), keptLen |-> Len(k.old),
      newLen |-> Len(newChildren), grownLen |-> Len(m.old),
      removalPasses |-> (Len(oldChildren) - Len(k.old)) + (k.i - 1),
      mainPasses |-> m.i - 1, removedCount |-> m.removedCount])]

\* first loop of diffChildren: old children whose key the new children
\* lack are removed; i is not advanced after a removal
KeyedRemoval(w, oldChildren, newKeyMap, oldKeyMap, parentDOM, i) ==
  IF w.err \/ i > Len(oldChildren)
  THEN [w |-> w, old |-> oldChildren, el |-> parentDOM, km |-> oldKeyMap,
        i |-> i]
  ELSE LET child == oldChildren[i]
       IN IF child.key # NoKey
          THEN IF ~MapHas(newKeyMap, child.key)
               THEN IF i > Len(parentDOM.children)
                    THEN KeyedRemoval(Throw(w), oldChildren, newKeyMap,
                                      oldKeyMap, parentDOM, i)
                    ELSE KeyedRemoval(
                           [w EXCEPT !.dropped = @ \cup Controllers(child)],
                           RemoveAt(oldChildren, i), newKeyMap, oldKeyMap,
                           [parentDOM EXCEPT !.children = RemoveAt(@, i)], i)
               ELSE KeyedRemoval(w, oldChildren, newKeyMap,
                                 MapSet(oldKeyMap, child.key, i), parentDOM,
                                 i + 1)
          ELSE KeyedRemoval(w, oldChildren, newKeyMap, oldKeyMap, parentDOM,
                            i + 1)

\* the bound of the main loop taken as the sum of the two lengths
Max_Sum(a, b) == a + b
\* Math.max(oldChildren.length, newChildren.length)
Max(a, b) == IF a > b THEN a ELSE b
\* the exchange of two entries of the old sequence left out
SwapAt_Keep(s, i, j) == s
\* [oldChildren[i], oldChildren[j]] = [oldChildren[j], oldChildren[i]]
SwapAt(s, i, j) == [s EXCEPT ![i] = s[j], ![j] = s[i]]

\* a virtual node without what construction and render add to it
RECURSIVE Described(_), DescribedAll(_)
Described(n) ==
  [n EXCEPT !.controller = 0, !.topNode = <<>>,
            !.children = DescribedAll(n.children)]
DescribedAll(ns) ==
  IF ns = <<>> THEN <<>> ELSE <<Described(Head(ns))>> \o DescribedAll(Tail(ns))
\* record of one step of the main loop at index i: the branch taken, the
\* pair found at i, the node the old sequence holds at i afterwards, the
\* parent's child ids before and after the step, and whether the parent's
\* children were aligned with the old sequence when the step began
Step(w, i, branch, oldChild, newChild, oldAfter, parentBefore, kidsAfter, aligned) ==
  [w EXCEPT !.steps = Append(@,
     [i |-> i, branch |-> branch, parent |-> parentBefore.id,
      aligned |-> aligned,
      old |-> Described(oldChild), new |-> Described(newChild),
      oldAfter |-> Described(oldAfter),
      pre |-> IdsOf(parentBefore.children), post |-> IdsOf(kidsAfter)])]

\* the main loop of diffChildren; its bound is read again at every step
MainLoop(w, oldChildren, newChildren, oldKeyMap, parentDOM, i, removedCount) ==
  IF w.err \/ i > Max(Len(oldChildren), Len(newChildren))
  THEN [w |-> w, old |-> oldChildren, el |-> parentDOM,
        removedCount |-> removedCount, i |-> i]
  ELSE IF i > Len(newChildren)
  THEN MainLoop(w, oldChildren, newChildren, oldKeyMap, parentDOM, i + 1,
                removedCount + 1)
  ELSE IF i > Len(oldChildren)
  THEN LET Pushed(r) ==
             MainLoop(r.w, Append(oldChildren, r.node), newChildren, oldKeyMap,
                      [parentDOM EXCEPT !.children = Append(@, r.el)], i + 1,
                      removedCount)
       IN Pushed(render(w, newChildren[i]))
  ELSE
    LET newChild == newChildren[i]
        oldChild == oldChildren[i]
    IN IF /\ newChild.key # NoKey
          /\ MapHas(oldKeyMap, newChild.key)
          /\ oldKeyMap[newChild.key] # i
       THEN
         LET oldKeyedItem == oldKeyMap[newChild.key]
             km == IF oldChild.key # NoKey
                   THEN MapSet(oldKeyMap, oldChild.key, oldKeyedItem)
                   ELSE oldKeyMap
         IN IF \/ oldKeyedItem > Len(parentDOM.children)
               \/ i > Len(parentDOM.children)
               \/ oldKeyedItem > Len(oldChildren)
            THEN MainLoop(Throw(w), oldChildren, newChildren, km, parentDOM,
                          i, removedCount)
            ELSE
              LET Moved(kids, olds, d) ==
                    MainLoop(Step(d.w, i, "move", oldChild, newChild, d.old,
                                  parentDOM, kids,
                                  ChildrenAligned(oldChildren, parentDOM.children)),
                             [olds EXCEPT ![i] = d.old], newChildren, km,
                             [parentDOM EXCEPT
                                !.children = [kids EXCEPT ![i] = d.el]],
                             i + 1, removedCount)
                  Swapped(kids, olds) ==
                    Moved(kids, olds,
                          diff(w, olds[i], newChild, kids[i], "move"))
              IN Swapped(domChildSwap(parentDOM.children, i, oldKeyedItem),
                         SwapAt(oldChildren, i, oldKeyedItem))
       ELSE
         LET km == IF oldChild.key # NoKey
                   THEN MapDelete(oldKeyMap, oldChild.key) ELSE oldKeyMap
         IN IF NeedsReplacement(oldChild, newChild)
            THEN
              LET Replaced(r) ==
                    IF i > Len(parentDOM.children)
                    THEN MainLoop(Throw(r.w), oldChildren, newChildren, km,
                                  parentDOM, i, removedCount)
                    ELSE MainLoop(
                           Step([r.w EXCEPT
                                   !.dropped = @ \cup Controllers(oldChild)],
                                i, "replace", oldChild, newChild, r.node,
                                parentDOM,
                                [parentDOM.children EXCEPT ![i] = r.el],
                                ChildrenAligned(oldChildren, parentDOM.children)),
                           [oldChildren EXCEPT ![i] = r.node], newChildren, km,
                           [parentDOM EXCEPT !.children[i] = r.el], i + 1,
                           removedCount)
              IN Replaced(render(w, newChild))
            ELSE
              IF i > Len(parentDOM.children)
              THEN MainLoop(Throw(w), oldChildren, newChildren, km, parentDOM,
                            i, removedCount)
              ELSE
                LET Aligned(d) ==
                      MainLoop(Step(d.w, i, "position", oldChild, newChild,
                                    d.old, parentDOM, parentDOM.children,
                                    ChildrenAligned(oldChildren, parentDOM.children)),
                               [oldChildren EXCEPT ![i] = d.old],
                               newChildren, km,
                               [parentDOM EXCEPT !.children[i] = d.el], i + 1,
                               removedCount)
                IN Aligned(diff(w, oldChild, newChild, parentDOM.children[i],
                                "position"))

\* the last loop without oldChildren.pop()
RECURSIVE TrailingRemoval_NoPop(_, _, _, _)
TrailingRemoval_NoPop(w, oldChildren, parentDOM, removedCount) ==
  IF w.err \/ removedCount = 0
  THEN [w |-> w, old |-> oldChildren, el |-> parentDOM]
  ELSE IF parentDOM.children = <<>>
  THEN [w |-> Throw(w), old |-> oldChildren, el |-> parentDOM]
  ELSE TrailingRemoval_NoPop(
         w, oldChildren,
         [parentDOM EXCEPT !.children = SubSeq(@, 1, Len(@) - 1)],
         removedCount - 1)

\* last loop of diffChildren: removeChild(lastChild) and pop, removedCount
\* times
RECURSIVE TrailingRemoval(_, _, _, _)
TrailingRemoval(w, oldChildren, parentDOM, removedCount) ==
  IF w.err \/ removedCount = 0
  THEN [w |-> w, old |-> oldChildren, el |-> parentDOM]
  ELSE IF parentDOM.children = <<>>
  THEN [w |-> Throw(w), old |-> oldChildren, el |-> parentDOM]
  ELSE TrailingRemoval(
         IF oldChildren = <<>> THEN w
         ELSE [w EXCEPT !.dropped =
                 @ \cup Controllers(oldChildren[Len(oldChildren)])],
         IF oldChildren = <<>> THEN <<>>
         ELSE SubSeq(oldChildren, 1, Len(oldChildren) - 1),
         [parentDOM EXCEPT !.children = SubSeq(@, 1, Len(@) - 1)],
         removedCount - 1)

\* diffChildren(oldChildren, newChildren, parentDOM)
diffChildren(w, oldChildren, newChildren, parentDOM) ==
  IF oldChildren = <<>>
  THEN AppendAll(w, oldChildren, newChildren, parentDOM)
  ELSE IF newChildren = <<>>
  THEN [w |-> [w EXCEPT !.dropped = @ \cup ControllersOf(oldChildren)],
        old |-> <<>>, el |-> [parentDOM EXCEPT !.children = <<>>]]
  ELSE
    LET Trailing(k, m) ==
          TrailingRemoval(Loops(oldChildren, newChildren, parentDOM, k, m),
                          m.old, m.el, m.removedCount)
        Main(k) ==
          Trailing(k, MainLoop(Removal(oldChildren, newChildren, parentDOM, k),
                            k.old, newChildren, k.km, k.el, 1, 0))
    IN Main(KeyedRemoval(w, oldChildren, KeyMapFrom(newChildren, 1, EmptyMap),
                         KeyMapFrom(oldChildren, 1, EmptyMap), parentDOM, 1))

(***************************************************************************)
(* The application: the trees the view function can return.  The model of  *)
(* the Driver is the description the view renders plus the number of       *)
(* updates applied; a message carries the next description.  Siblings have *)
(* unique keys, as the data model requires of every tree the view builds.  *)
(***************************************************************************)
Text(s) == VPrimitive(Str(s))
Li(key, label) == VElement("li", <<>>, <<Text(label)>>, key)
Span(key, label) == VElement("span", <<>>, <<Text(label)>>, key)

UniqueKeys(children) ==
  \A i, j \in 1..Len(children) :
    (i # j /\ children[i].key # NoKey) => children[i].key # children[j].key
SeqsUpTo(S, n) == UNION {[1..m -> S] : m \in 0..n}
Div(children) == VElement("div", <<>>, children, NoKey)

\* a list whose items are all keyed: every arrangement of distinct keys
KeyName(i) == <<"k1", "k2", "k3", "k4", "k5">>[i]
LabelOf(i) == <<"a", "b", "c", "d", "e">>[i]
PermPool == {Li(KeyName(i), LabelOf(i)) : i \in 1..MaxKeys}
PermTrees ==
  {Div(cs) : cs \in {c \in SeqsUpTo(PermPool, MaxKeys) : UniqueKeys(c)}}

\* a list of keyed and unkeyed items, an item whose tag changes under the
\* same key, a bare text
MixedPool ==
  {Li("k1", "a"), Li("k2", "b"), Li(NoKey, "u"), Span("k1", "a"), Text("t")}
MixedTrees ==
  {Div(cs) : cs \in {c \in SeqsUpTo(MixedPool, MaxChildren) : UniqueKeys(c)}}

\* an element whose props change from one view to the next
Red == Obj(<<Prop("color", Str("red"))>>)
RedWide == Obj(<<Prop("color", Str("red")), Prop("width", Str("1px"))>>)
WideRed == Obj(<<Prop("width", Str("1px")), Prop("color", Str("red"))>>)
Blue == Obj(<<Prop("color", Str("blue"))>>)
\* useRef(initialValue, onMount)
useRef(initialValue, onMount) ==
  Obj(<<Prop("current", initialValue), Prop("onMount", Fn(onMount))>>)
PropsPool ==
  {<<>>,
   <<Prop("ref", useRef(Null, "onMount"))>>,
   <<Prop("className", Str("a"))>>,
   <<Prop("className", Str("b")), Prop("onClick", Fn("h1"))>>,
   <<Prop("onClick", Fn("h1"))>>,
   <<Prop("onClick", Fn("h2"))>>,
   <<Prop("onClick", Undefined), Prop("onInput", Fn("h1"))>>,
   <<Prop("onClick", Fn("h1")), Prop("onInput", Fn("h1"))>>,
   <<Prop("style", Red)>>,
   <<Prop("style", RedWide), Prop("title", Str("x"))>>,
   <<Prop("style", WideRed), Prop("title", Str("x"))>>,
   <<Prop("style", Blue), Prop("title", Str("y"))>>,
   <<Prop("value", Str("v")), Prop("checked", Bool("true"))>>,
   <<Prop("value", Str("w")), Prop("id", Str("input"))>>,
   <<Prop("value", Num("5")), Prop("tabIndex", Num("5"))>>,
   <<Prop("value", Str("5")), Prop("tabIndex", Str("5"))>>}
PropsTrees ==
  {Div(<<>>)} \cup {Div(<<VElement("input", ps, <<>>, NoKey)>>) : ps \in PropsPool}

\* components, lazy or not, whose props change
Lazy == Prop("lazy", Bool("true"))
ComponentPool ==
  {VFunction("Item", <<Lazy, Prop("value", Num("5"))>>, NoKey),
   VFunction("Item", <<Lazy, Prop("value", Num("6"))>>, NoKey),
   VFunction("Item", <<Prop("value", Num("5")), Lazy>>, NoKey),
   VFunction("Item", <<Prop("value", Num("5"))>>, NoKey),
   VFunction("Item", <<Prop("value", Num("6"))>>, NoKey),
   VFunction("Item", <<Lazy, Prop("value", Num("5")),
                       Prop("onClick", Fn("h1"))>>, NoKey),
   VFunction("Item", <<Lazy, Prop("value", Num("5")),
                       Prop("onClick", Fn("h2"))>>, NoKey),
   VFunction("Item", <<Lazy, Prop("value", Num("5")),
                       Prop("title", Undefined)>>, NoKey),
   VFunction("Box", <<Lazy, Prop("value", Str("x"))>>, NoKey),
   VFunction("Box", <<Prop("alt", Bool("true")), Prop("value", Str("x"))>>,
             NoKey),
   VFunction("Box", <<Prop("value", Str("x"))>>, "k1"),
   Li("k1", "a")}
ComponentTrees ==
  {Div(<<>>)} \cup {Div(<<c>>) : c \in ComponentPool}
    \cup {Div(<<Li(NoKey, "u"), c>>) :
            c \in {x \in ComponentPool : x.key # NoKey}}

\* views whose root node changes kind or tag
RootTrees ==
  {Div(<<>>), Div(<<Text("t")>>), Span(NoKey, "t"), Span(NoKey, "s"),
   VFunction("Box", <<Prop("value", Str("x"))>>, NoKey),
   VFunction("Box", <<Prop("alt", Bool("true")), Prop("value", Str("x"))>>,
             NoKey),
   VFunction("Item", <<Prop("value", Str("x"))>>, NoKey)}

\* inputs with identifiers that move, stay, are recreated or disappear
Input(id, key) == VElement("input", <<Prop("id", Str(id))>>, <<>>, key)
FocusTrees ==
  {Div(<<>>), Div(<<Text("t")>>),
   Div(<<Input("a", NoKey)>>), Div(<<Text("t"), Input("a", NoKey)>>),
   Div(<<Input("b", NoKey)>>),
   Div(<<Input("a", "k1"), Input("b", "k2")>>),
   Div(<<Input("b", "k2"), Input("a", "k1")>>)}

\* texts and numbers that change value, type or neither
PrimitiveTrees ==
  {Div(<<>>), Div(<<Text("5")>>), Div(<<VPrimitive(Num("5"))>>),
   Div(<<VPrimitive(Num("6"))>>), Div(<<Text("t"), VPrimitive(Num("5"))>>)}

Families ==
  {"perm", "mixed", "props", "component", "root", "focus", "primitive"}
Trees(f) ==
  CASE f = "perm" -> PermTrees
    [] f = "mixed" -> MixedTrees
    [] f = "props" -> PropsTrees
    [] f = "component" -> ComponentTrees
    [] f = "focus" -> FocusTrees
    [] f = "primitive" -> PrimitiveTrees
    [] OTHER -> RootTrees

\* init(), update(model, msg), view(model)
\* how often the application of a family is attached: the application
\* whose root changes and the one whose inputs take focus are also
\* re-attached, to another target
AttachBound(f) == IF f \in {"root", "focus"} THEN MaxAttach ELSE 1
InitModel(f) == [view |-> Div(<<>>), n |-> 0]
update(m, msg) == [view |-> msg, n |-> m.n + 1]
view(m) == m.view

(***************************************************************************)
(* State of the program.                                                   *)
(***************************************************************************)
VARIABLES
  family,            \* which application is running (fixed by Init)
  model,             \* App.model
  container,         \* App.container: "detached" or the attach target
  content,           \* the child list (ids) of every attach target
  previous,          \* App.previous: <<>> or <<virtual tree>>
  previousElement,   \* App.previousElement: <<>> or <<DOM tree>>
  focusedElementId,  \* App.focusedElementId ("" stands for null and "")
  activeElement,     \* document.activeElement: a DOM id, 0 for body
  world,             \* id counter, aborted controllers, record of last call
  before,            \* previous, previousElement, id counter when the last
                     \* call began, and which call it was
  dispatches,        \* number of dispatch calls made
  attaches,          \* number of attach calls made
  previousRef,       \* identity of the object App.previous refers to (0 for
                     \* undefined): the id counter when view() built it
  history,           \* the messages dispatched so far, in order
  jsx,               \* the last eldoraJSX call: arguments and result
  swap,              \* a child list and the last domChildSwap call on it
  em                 \* the EventManager and the last call on it
vars ==
  <<family, model, container, content, previous, previousElement,
    focusedElementId, activeElement, world, before, dispatches, attaches,
    previousRef, history, jsx, swap, em>>

Targets == {"app", "other"}

\* document.getElementById(id) below a DOM node: first match in tree order,
\* as <<node>> or <<>>
RECURSIVE GetElementById(_, _), FirstById(_, _)
FirstById(els, id) ==
  IF els = <<>> THEN <<>>
  ELSE LET hit == GetElementById(Head(els), id)
       IN IF hit # <<>> THEN hit ELSE FirstById(Tail(els), id)
\* getElementById that falls back to an element carrying another id
GetElementById_AnyId(el, id) ==
  LET RECURSIVE WithId(_)
      WithId(e) ==
        (IF e.kind = "element" /\ \E a \in e.attrs : a[1] = "id"
         THEN {e} ELSE {})
          \cup UNION {WithId(e.children[i]) : i \in 1..Len(e.children)}
      exact == {e \in WithId(el) : <<"id", id>> \in e.attrs}
  IN IF exact # {} THEN <<CHOOSE e \in exact : TRUE>>
     ELSE IF WithId(el) # {} THEN <<CHOOSE e \in WithId(el) : TRUE>>
     ELSE <<>>
GetElementById(el, id) ==
  IF el.kind = "element" /\ <<"id", id>> \in el.attrs THEN <<el>>
  ELSE FirstById(el.children, id)

\* ids of all nodes of a DOM tree
RECURSIVE DomIds(_)
DomIds(el) == {el.id} \cup UNION {DomIds(el.children[i]) : i \in 1..Len(el.children)}
\* element.id of the node with the given DOM id ("" when it has none)
IdAttrOf(root, domId) ==
  LET RECURSIVE Find(_)
      Find(el) ==
        IF el.id = domId
        THEN IF \E a \in el.attrs : a[1] = "id"
             THEN (CHOOSE a \in el.attrs : a[1] = "id")[2] ELSE ""
        ELSE LET hits == {Find(el.children[i]) : i \in 1..Len(el.children)} \ {""}
             IN IF hits = {} THEN "" ELSE CHOOSE h \in hits : TRUE
  IN Find(root)

(***************************************************************************)
(* EventManager (event.ts): a map from event type to a map from element    *)
(* to the array of its listeners, and one top-level listener on the        *)
(* document for each entry of eventTypes.                                  *)
(***************************************************************************)
MaxRegistrations == 3
\* the event types of the model: two entries of the eventTypes list, one
\* that bubbles and one that does not
EventTypeNames == {"click", "focus"}
eventTypes == {"click", "focus"}
\* the document's listeners are added without the capture option, so they
\* run only for events that bubble up from their target; focus (like blur)
\* does not bubble
Bubbles(type) == type # "focus"
\* two elements, "inner" a child of "outer"
EventElements == {"outer", "inner"}
\* the listener functions of the application: one that only observes the
\* event, one that removes itself and one that removes the first, each for
\* the event's target and type
EventListeners == {"plain", "removesItself", "removesPlain"}

\* Array.prototype.lastIndexOf in place of indexOf
indexOf_Last(s, x) ==
  IF \E i \in 1..Len(s) : s[i] = x
  THEN CHOOSE i \in 1..Len(s) : s[i] = x /\ \A j \in (i + 1)..Len(s) : s[j] # x
  ELSE 0
\* Array.prototype.indexOf, 1-based, 0 where the source has -1
indexOf(s, x) ==
  IF \E i \in 1..Len(s) : s[i] = x
  THEN CHOOSE i \in 1..Len(s) : s[i] = x /\ \A j \in 1..(i - 1) : s[j] # x
  ELSE 0

addEventListener(listeners, element, type, listener) ==
  LET withType == IF ~MapHas(listeners, type)
                  THEN MapSet(listeners, type, EmptyMap) ELSE listeners
      listenersForType ==
        IF ~MapHas(withType[type], element)
        THEN MapSet(withType[type], element, <<>>) ELSE withType[type]
  IN MapSet(withType, type,
            MapSet(listenersForType, element,
                   Append(listenersForType[element], listener)))

removeEventListener(listeners, element, type, listener) ==
  IF /\ MapHas(listeners, type)
     /\ MapHas(listeners[type], element)
     /\ indexOf(listeners[type][element], listener) # 0
  THEN MapSet(listeners, type,
              MapSet(listeners[type], element,
                     RemoveAt(listeners[type][element],
                              indexOf(listeners[type][element], listener))))
  ELSE listeners

removeAllEventListenersForElement(listeners, element) ==
  [t \in DOMAIN listeners |-> MapDelete(listeners[t], element)]

\* listener(event): what the listener function does to the manager
Invoke(listeners, listener, type, target) ==
  CASE listener = "removesItself" ->
         removeEventListener(listeners, target, type, listener)
    [] listener = "removesPlain" ->
         removeEventListener(listeners, target, type, "plain")
    [] OTHER -> listeners

\* listenersForTarget.forEach(listener => listener(event)): the length is
\* read once, an index the array no longer has is skipped
RECURSIVE forEach(_, _, _, _, _, _)
forEach(listeners, type, target, k, len, invoked) ==
  IF k > len THEN [listeners |-> listeners, invoked |-> invoked]
  ELSE IF k > Len(listeners[type][target])
  THEN forEach(listeners, type, target, k + 1, len, invoked)
  ELSE forEach(Invoke(listeners, listeners[type][target][k], type, target),
               type, target, k + 1, len,
               Append(invoked, listeners[type][target][k]))

handleEvent(listeners, type, target) ==
  IF MapHas(listeners, type) /\ MapHas(listeners[type], target)
  THEN forEach(listeners, type, target, 1, Len(listeners[type][target]), <<>>)
  ELSE [listeners |-> listeners, invoked |-> <<>>]

\* the listeners registered for a type and an element, in array order
RegisteredFor(listeners, type, element) ==
  IF MapHas(listeners, type) /\ MapHas(listeners[type], element)
  THEN listeners[type][element] ELSE <<>>
\* number of registrations in all arrays
Registrations(listeners) ==
  Cardinality({r \in EventTypeNames \X EventElements \X (1..(MaxRegistrations + 1)) :
                 r[3] <= Len(RegisteredFor(listeners, r[1], r[2]))})
\* the manager after construction, nothing called yet
NoEvents ==
  [listeners |-> EmptyMap, op |-> "new", type |-> "", element |-> "",
   listener |-> "", before |-> EmptyMap, invoked |-> <<>>, handled |-> FALSE]

\* no child list, no domChildSwap call
NoSwap == [kids |-> <<>>, calls |-> 0, pre |-> <<>>, destination |-> 0, from |-> 0]
\* no eldoraJSX call was made yet
NoJSX ==
  [calls |-> 0, type |-> Undefined, props |-> <<>>, key |-> NoKey,
   node |-> <<>>, after |-> <<>>, nextId |-> 0]

Init ==
  /\ family \in Families
  /\ model = InitModel(family)
  /\ container = "detached"
  /\ content = [t \in Targets |-> <<>>]
  /\ previous = <<>>
  /\ previousElement = <<>>
  /\ focusedElementId = ""
  /\ activeElement = 0
  /\ world = World(1, {})
  /\ before = [previous |-> <<>>, previousElement |-> <<>>, op |-> "new",
               nextId |-> 1, previousRef |-> 0, content |-> <<>>,
               activeElement |-> 0]
  /\ dispatches = 0
  /\ attaches = 0
  /\ previousRef = 0
  /\ history = <<>>
  /\ jsx = NoJSX
  /\ swap = NoSwap
  /\ em = NoEvents

\* the root DOM node is in the document when an attach target holds it
InDocument(cnt, prevEl) ==
  /\ prevEl # <<>>
  /\ \E t \in Targets : cnt[t] = <<prevEl[1].id>>

\* the ids of the elements of a DOM tree that can take focus
RECURSIVE Focusable(_)
Focusable(el) ==
  (IF el.kind = "element" /\ el.tag = "input" THEN {el.id} ELSE {})
    \cup UNION {Focusable(el.children[i]) : i \in 1..Len(el.children)}

\* renderView that renders afresh on every call
renderView_AlwaysRender(cont, m, focusId) ==
  LET Rendered(r) ==
        /\ previous' = <<r.node>>
        /\ previousElement' = <<r.el>>
        /\ content' = IF cont \in Targets
                      THEN [content EXCEPT ![cont] = <<r.el.id>>]
                      ELSE content
        /\ world' = r.w
        /\ activeElement' = activeElement
        /\ previousRef' = world.nextId
      Viewed(currentNode) == Rendered(render(currentNode.w, currentNode.node))
  IN Viewed(Construct(World(world.nextId, world.aborted), view(m)))

\* renderView without the lookup and focus() that follow diff
renderView_NoRefocus(cont, m, focusId) ==
  LET Rendered(r) ==
        /\ previous' = <<r.node>>
        /\ previousElement' = <<r.el>>
        /\ content' = IF cont \in Targets
                      THEN [content EXCEPT ![cont] = <<r.el.id>>]
                      ELSE content
        /\ world' = r.w
        /\ activeElement' = activeElement
        /\ previousRef' = world.nextId
      Reconciled(d) ==
        /\ previous' = <<d.old>>
        /\ previousElement' = <<d.el>>
        /\ content' = content
        /\ world' = d.w
        /\ previousRef' = previousRef
        /\ activeElement' =
             IF activeElement \in DomIds(d.el) THEN activeElement ELSE 0
      Viewed(currentNode) ==
        IF previous = <<>> \/ previousElement = <<>>
        THEN Rendered(render(currentNode.w, currentNode.node))
        ELSE Reconciled(diff(currentNode.w, previous[1], currentNode.node,
                             previousElement[1], "root"))
  IN Viewed(Construct(World(world.nextId, world.aborted), view(m)))

\* App.renderView() with this.container = cont and this.model = m: the
\* primed variables other than model, container, dispatches, before
renderView(cont, m, focusId) ==
  LET Rendered(r) ==
        /\ previous' = <<r.node>>
        /\ previousElement' = <<r.el>>
        /\ content' = IF cont \in Targets
                      THEN [content EXCEPT ![cont] = <<r.el.id>>]
                      ELSE content
        /\ world' = r.w
        /\ activeElement' = activeElement
        /\ previousRef' = world.nextId
      Focused(d, target) ==
        /\ previous' = <<d.old>>
        /\ previousElement' = <<d.el>>
        /\ content' = content
        /\ world' = d.w
        /\ previousRef' = previousRef
        /\ activeElement' =
             IF target # <<>> /\ target[1].id \in Focusable(d.el)
             THEN target[1].id
             ELSE IF activeElement \in DomIds(d.el) THEN activeElement
             ELSE 0
      Reconciled(d) ==
        Focused(d, IF focusId # "" /\ ~d.w.err
                      /\ InDocument(content, <<d.el>>)
                   THEN GetElementById(d.el, focusId) ELSE <<>>)
      Viewed(currentNode) ==
        IF previous = <<>> \/ previousElement = <<>>
        THEN Rendered(render(currentNode.w, currentNode.node))
        ELSE Reconciled(diff(currentNode.w, previous[1], currentNode.node,
                         previousElement[1], "root"))
  IN Viewed(Construct(World(world.nextId, world.aborted), view(m)))

\* App.attach(container)
Attach(t) ==
  /\ attaches < AttachBound(family)
  /\ attaches' = attaches + 1
  /\ container' = t
  /\ renderView(t, model, focusedElementId)
  /\ before' = [previous |-> previous, previousElement |-> previousElement,
                op |-> "attach", nextId |-> world.nextId,
                previousRef |-> previousRef, content |-> content[t],
                activeElement |-> activeElement]
  /\ UNCHANGED <<family, model, focusedElementId, dispatches, history, jsx,
                 swap, em>>

\* App.dispatch(msg)
Dispatch(msg) ==
  /\ dispatches < MaxDispatch
  /\ dispatches' = dispatches + 1
  /\ LET focusId == IF activeElement = 0 \/ previousElement = <<>> THEN ""
                    ELSE IdAttrOf(previousElement[1], activeElement)
         m == update(model, msg)
     IN /\ focusedElementId' = focusId
        /\ model' = m
        /\ renderView(container, m, focusId)
  /\ history' = Append(history, msg)
  /\ before' = [previous |-> previous, previousElement |-> previousElement,
                op |-> "dispatch", nextId |-> world.nextId,
                previousRef |-> previousRef, content |-> <<>>,
                activeElement |-> activeElement]
  /\ UNCHANGED <<family, container, attaches, jsx, swap, em>>

\* the user moves focus to an input of the application that is in the
\* document, or away from the application (id = 0: the body)
Focus(id) ==
  /\ InDocument(content, previousElement)
  /\ id = 0 \/ id \in Focusable(previousElement[1])
  /\ id # activeElement
  /\ activeElement' = id
  /\ before' = [before EXCEPT !.op = "focus"]
  /\ UNCHANGED <<family, model, container, content, previous, previousElement,
                 focusedElementId, world, dispatches, attaches, previousRef,
                 history, jsx, swap, em>>

\* the targets are interchangeable: the first attach goes to "app", a later
\* one to the target the application is not attached to
AttachTargets == IF attaches = 0 THEN {"app"} ELSE Targets \ {container}

Next ==
  \/ \E t \in AttachTargets : Attach(t)
  \/ \E msg \in Trees(family) : Dispatch(msg)
  \/ \E id \in 0..world.nextId : Focus(id)

Spec == Init /\ [][Next]_vars

(***************************************************************************)
(* The Tree Constructor on its own.  JSX expressions are evaluated inside  *)
(* out: when a call is made its node children have been constructed.       *)
(***************************************************************************)
MaxJSXCalls == 2
MaxJSXChildren == 2
\* <li key="k1">a</li>, constructed before the calls that use it as a child
JSXChild ==
  parseJSXToEldoraNode(World(1, {}), Str("li"),
                       <<Prop("children", Str("a"))>>, "k1")
JSXTypes == {Str("div"), Fn("Box"), Num("7")}
JSXKeys == {NoKey, "k1"}
JSXItems == {Str("a"), Str(""), Num("0"), Node(JSXChild.node[1])}
JSXChildren ==
  JSXItems \cup {Arr(items) : items \in SeqsUpTo(JSXItems, MaxJSXChildren)}
\* the props bag of a call: an attribute and, unless absent, `children`
JSXProps ==
  {<<Prop("id", Str("x"))>>}
    \cup {<<Prop("id", Str("x")), Prop("children", c)>> : c \in JSXChildren}

\* eldoraJSX(type, props, key)
eldoraJSX(type, props, key) ==
  /\ jsx.calls < MaxJSXCalls
  /\ LET Returned(r) ==
           /\ world' = r.w
           /\ jsx' = [calls |-> jsx.calls + 1, type |-> type, props |-> props,
                      key |-> key, node |-> r.node, after |-> r.props,
                      nextId |-> world.nextId]
     IN Returned(parseJSXToEldoraNode([world EXCEPT !.err = FALSE],
                                      type, props, key))
  /\ UNCHANGED <<family, model, container, content, previous, previousElement,
                 focusedElementId, activeElement, before, dispatches, attaches,
                 previousRef, history, swap, em>>

InitJSX ==
  /\ family = "root"
  /\ model = InitModel(family)
  /\ container = "detached"
  /\ content = [t \in Targets |-> <<>>]
  /\ previous = <<>>
  /\ previousElement = <<>>
  /\ focusedElementId = ""
  /\ activeElement = 0
  /\ world = JSXChild.w
  /\ before = [previous |-> <<>>, previousElement |-> <<>>, op |-> "new",
               nextId |-> 1, previousRef |-> 0, content |-> <<>>,
               activeElement |-> 0]
  /\ dispatches = 0
  /\ attaches = 0
  /\ previousRef = 0
  /\ history = <<>>
  /\ jsx = NoJSX
  /\ swap = NoSwap
  /\ em = NoEvents
NextJSX ==
  \E type \in JSXTypes, key \in JSXKeys, props \in JSXProps :
    eldoraJSX(type, props, key)
SpecJSX == InitJSX /\ [][NextJSX]_vars

(***************************************************************************)
(* domChildSwap on its own: a parent with n children, swapped at any two   *)
(* distinct indices, again and again.                                      *)
(***************************************************************************)
MaxSwapLen == 4
MaxSwaps == 3
\* n children, a text node first and elements after it, with ids 1..n
RECURSIVE ChildList(_)
ChildList(n) ==
  IF n = 0 THEN <<>>
  ELSE Append(ChildList(n - 1),
              IF n = 1 THEN TextNode(1, "t") ELSE ElementNode(n, "li"))

\* domChildSwap(parent, destination, from), indices 1-based
SwapCall(destination, from) ==
  /\ swap.calls < MaxSwaps
  /\ destination # from
  /\ swap' = [kids |-> domChildSwap(swap.kids, destination, from),
              calls |-> swap.calls + 1, pre |-> swap.kids,
              destination |-> destination, from |-> from]
  /\ UNCHANGED <<family, model, container, content, previous, previousElement,
                 focusedElementId, activeElement, world, before, dispatches,
                 attaches, previousRef, history, jsx, em>>

InitSwap ==
  /\ family = "root"
  /\ model = InitModel(family)
  /\ container = "detached"
  /\ content = [t \in Targets |-> <<>>]
  /\ previous = <<>>
  /\ previousElement = <<>>
  /\ focusedElementId = ""
  /\ activeElement = 0
  /\ world = World(1, {})
  /\ before = [previous |-> <<>>, previousElement |-> <<>>, op |-> "new",
               nextId |-> 1, previousRef |-> 0, content |-> <<>>,
               activeElement |-> 0]
  /\ dispatches = 0
  /\ attaches = 0
  /\ previousRef = 0
  /\ history = <<>>
  /\ jsx = NoJSX
  /\ \E n \in 2..MaxSwapLen : swap = [NoSwap EXCEPT !.kids = ChildList(n)]
  /\ em = NoEvents
NextSwap ==
  \E destination, from \in 1..Len(swap.kids) : SwapCall(destination, from)
SpecSwap == InitSwap /\ [][NextSwap]_vars

(***************************************************************************)
(* The EventManager on its own: listeners are added and removed and the    *)
(* browser dispatches events at the elements.                              *)
(***************************************************************************)
ManagerAdd(element, type, listener) ==
  /\ Registrations(em.listeners) < MaxRegistrations
  /\ em' = [listeners |-> addEventListener(em.listeners, element, type, listener),
            op |-> "add", type |-> type, element |-> element,
            listener |-> listener, before |-> em.listeners,
            invoked |-> <<>>, handled |-> FALSE]
  /\ UNCHANGED <<family, model, container, content, previous, previousElement,
                 focusedElementId, activeElement, world, before, dispatches,
                 attaches, previousRef, history, jsx, swap>>

ManagerRemove(element, type, listener) ==
  /\ em' = [listeners |-> removeEventListener(em.listeners, element, type, listener),
            op |-> "remove", type |-> type, element |-> element,
            listener |-> listener, before |-> em.listeners,
            invoked |-> <<>>, handled |-> FALSE]
  /\ UNCHANGED <<family, model, container, content, previous, previousElement,
                 focusedElementId, activeElement, world, before, dispatches,
                 attaches, previousRef, history, jsx, swap>>

ManagerRemoveAll(element) ==
  /\ em' = [listeners |-> removeAllEventListenersForElement(em.listeners, element),
            op |-> "removeAll", type |-> "", element |-> element,
            listener |-> "", before |-> em.listeners,
            invoked |-> <<>>, handled |-> FALSE]
  /\ UNCHANGED <<family, model, container, content, previous, previousElement,
                 focusedElementId, activeElement, world, before, dispatches,
                 attaches, previousRef, history, jsx, swap>>

\* the browser dispatches an event of the type at the target: handleEvent
\* runs when the document has a listener for the type and the event
\* reaches the document
DomEvent(type, target) ==
  /\ LET handled == type \in eventTypes /\ Bubbles(type)
         r == IF handled THEN handleEvent(em.listeners, type, target)
              ELSE [listeners |-> em.listeners, invoked |-> <<>>]
     IN em' = [listeners |-> r.listeners, op |-> "event", type |-> type,
               element |-> target, listener |-> "", before |-> em.listeners,
               invoked |-> r.invoked, handled |-> handled]
  /\ UNCHANGED <<family, model, container, content, previous, previousElement,
                 focusedElementId, activeElement, world, before, dispatches,
                 attaches, previousRef, history, jsx, swap>>

InitEvents ==
  /\ family = "root"
  /\ model = InitModel(family)
  /\ container = "detached"
  /\ content = [t \in Targets |-> <<>>]
  /\ previous = <<>>
  /\ previousElement = <<>>
  /\ focusedElementId = ""
  /\ activeElement = 0
  /\ world = World(1, {})
  /\ before = [previous |-> <<>>, previousElement |-> <<>>, op |-> "new",
               nextId |-> 1, previousRef |-> 0, content |-> <<>>,
               activeElement |-> 0]
  /\ dispatches = 0
  /\ attaches = 0
  /\ previousRef = 0
  /\ history = <<>>
  /\ jsx = NoJSX
  /\ swap = NoSwap
  /\ em = NoEvents
NextEvents ==
  \/ \E element \in EventElements, type \in EventTypeNames, listener \in EventListeners :
       ManagerAdd(element, type, listener)
  \/ \E element \in EventElements, type \in EventTypeNames, listener \in EventListeners :
       ManagerRemove(element, type, listener)
  \/ \E element \in EventElements : ManagerRemoveAll(element)
  \/ \E type \in EventTypeNames, target \in EventElements : DomEvent(type, target)
SpecEvents == InitEvents /\ [][NextEvents]_vars

(***************************************************************************)
(* Observations used by the properties.                                    *)
(***************************************************************************)
\* the node structure of a DOM tree: tags, number and order of children,
\* text values
RECURSIVE Structure(_)
Structure(el) ==
  [kind |-> el.kind, tag |-> el.tag, text |-> el.nodeValue,
   children |-> [i \in 1..Len(el.children) |-> Structure(el.children[i])]]
\* what render would create for view(m), built from scratch
FreshRender(m) ==
  LET c == Construct(World(1, {}), view(m)) IN render(c.w, c.node).el
Attached == container \in Targets /\ previousElement # <<>>

\* C1: after any sequence of attach and dispatch calls the render target's
\* node structure (tags, number and order of children, text values) equals
\* that of a fresh render of view(model).
C1_StructureMatchesView ==
  Attached => Structure(previousElement[1]) = Structure(FreshRender(model))

\* the last call was a diff pass over the root pair
Diffed == before.previous # <<>> /\ before.previousElement # <<>>
\* the root pair of the last pass are two Elements: diffChildren ran on
\* OldKids (as they were before the pass) and NewKids
ListDiffed ==
  /\ Diffed
  /\ before.previous[1].type = "html"
  /\ model.view.type = "html"
OldKids == before.previous[1].children
NewKids == model.view.children
OldDom == before.previousElement[1].children
NewDom == previousElement[1].children
AllKeyed(children) == \A i \in 1..Len(children) : children[i].key # NoKey
\* the index of the child with key k
IndexOfKey(children, k) == CHOOSE j \in 1..Len(children) : children[j].key = k

\* the new children are an arrangement of the old keys, each key keeping
\* its kind and tag
PermutationCase ==
  /\ ListDiffed
  /\ Len(OldKids) = Len(NewKids)
  /\ AllKeyed(OldKids) /\ UniqueKeys(OldKids)
  /\ AllKeyed(NewKids) /\ UniqueKeys(NewKids)
  /\ \A i \in 1..Len(NewKids) :
       \E j \in 1..Len(OldKids) :
         /\ OldKids[j].key = NewKids[i].key
         /\ OldKids[j].type = NewKids[i].type
         /\ OldKids[j].value = NewKids[i].value

\* C2: key-stability.  When diffChildren reconciles a keyed sequence against
\* a permutation of the same keys (unique keys, same kind and tag per key),
\* the render-target children end up in the new order and every node object
\* is the one that was there before the diff: none destroyed, none created.
C2_KeyStability ==
  PermutationCase =>
    /\ ~world.err
    /\ Len(NewDom) = Len(NewKids)
    /\ \A i \in 1..Len(NewKids) :
         NewDom[i].id = OldDom[IndexOfKey(OldKids, NewKids[i].key)].id
    /\ DomIds(previousElement[1]) = DomIds(before.previousElement[1])
\* a permutation that moves every one of three children was reconciled
C2_Witness ==
  /\ PermutationCase
  /\ Len(NewKids) = 3
  /\ \A i \in 1..3 : NewKids[i].key # OldKids[i].key
  /\ IdsOf(NewDom) = <<OldDom[3].id, OldDom[1].id, OldDom[2].id>>

\* C3: key matching has priority over positional matching.  Every new child
\* whose key also occurs among the old children (keys unique on both sides)
\* is represented after diffChildren by the render-target node object that
\* represented the old child with that key.
C3_KeyPriority ==
  (ListDiffed /\ UniqueKeys(OldKids) /\ UniqueKeys(NewKids)) =>
    \A i \in 1..Len(NewKids) : \A j \in 1..Len(OldKids) :
      (NewKids[i].key # NoKey /\ OldKids[j].key = NewKids[i].key) =>
        /\ i <= Len(NewDom)
        /\ NewDom[i].id = OldDom[j].id

\* a DOM tree without node identities and listener tokens
RECURSIVE Shape(_)
Shape(el) ==
  [kind |-> el.kind, tag |-> el.tag, text |-> el.nodeValue, attrs |-> el.attrs,
   style |-> el.style, value |-> el.value, checked |-> el.checked,
   handlers |-> {<<l.type, l.handler>> : l \in el.listeners},
   children |-> [i \in 1..Len(el.children) |-> Shape(el.children[i])]]
FreshRenderOf(tmpl) ==
  LET c == Construct(World(1, {}), tmpl) IN render(c.w, c.node).el
\* the steps the main loop made on the root's child list in the last pass
RootSteps ==
  {k \in 1..Len(world.steps) : world.steps[k].parent = previousElement[1].id}
\* the step replaced the node at its index by a freshly rendered node for
\* the new child, recorded the new child and left the other children alone
ReplacedAt(st) ==
  /\ st.branch = "replace"
  /\ Len(st.post) = Len(st.pre)
  /\ st.post[st.i] >= before.nextId
  /\ \A j \in 1..Len(st.pre) : j # st.i => st.post[j] = st.pre[j]
  /\ st.oldAfter = st.new
\* the node a root-level step put at its index is still there at the end
\* of the pass and looks like a fresh render of the new child
StillFresh(st) ==
  /\ st.i <= Len(NewDom)
  /\ NewDom[st.i].id = st.post[st.i]
  /\ Shape(NewDom[st.i]) = Shape(FreshRenderOf(st.new))
  /\ Described(previous[1].children[st.i]) = st.new

\* two children differ in kind, or are Elements with different tags, or
\* Components with different functions
KindOrTagDiffers(a, b) ==
  \/ a.type # b.type
  \/ (a.type \in {"html", "function"} /\ a.value # b.value)

\* C4 as stated: whenever the old and the new child found at an index of
\* the main loop differ in kind, tag or component function, the node at
\* that index is replaced by a freshly rendered one.
C4_ReplacementAtEveryIndex ==
  \A k \in 1..Len(world.steps) :
    KindOrTagDiffers(world.steps[k].old, world.steps[k].new) =>
      ReplacedAt(world.steps[k])
\* C4 (amended): replacement on kind/tag change.  When the main loop of
\* diffChildren reaches an index where no key-based move applies and the old
\* and new child there differ in kind, or are Elements with different tags,
\* or Components with different functions, the render-target node at that
\* index is replaced by a freshly rendered node for the new child, the old
\* sequence holds the new child at that index and the other render-target
\* children are left as they were.
C4_ReplacementWithoutMove ==
  /\ \A k \in 1..Len(world.steps) :
       (world.steps[k].branch # "move"
          /\ KindOrTagDiffers(world.steps[k].old, world.steps[k].new)) =>
         ReplacedAt(world.steps[k])
  /\ \A k \in RootSteps :
       (~world.err /\ world.steps[k].branch # "move"
          /\ KindOrTagDiffers(world.steps[k].old, world.steps[k].new)) =>
         StillFresh(world.steps[k])
\* an Element of another tag replaced an Element at its index, in a list of
\* two, and the fresh node is still the one at that index
C4_Witness ==
  \E k \in RootSteps :
    /\ world.steps[k].branch = "replace"
    /\ world.steps[k].old.type = "html"
    /\ world.steps[k].new.type = "html"
    /\ world.steps[k].old.value # world.steps[k].new.value
    /\ Len(world.steps[k].pre) = 2
    /\ StillFresh(world.steps[k])

\* C5: whenever the Reconciler destroys a node (keyed removal, trailing
\* removal, bulk clear, replacement) the listener-lifetime token of that
\* node and of every Element of its subtree is invalidated.
C5_DestroyedTokensInvalidated == world.dropped \subseteq world.aborted

Min(a, b) == IF a < b THEN a ELSE b
\* number of Element nodes of a virtual subtree, expansions included
RECURSIVE ElementCount(_), ElementCountAll(_)
ElementCount(n) ==
  (IF n.type = "html" THEN 1 ELSE 0) + ElementCountAll(n.children)
    + ElementCountAll(n.topNode)
ElementCountAll(ns) ==
  IF ns = <<>> THEN 0 ELSE ElementCount(Head(ns)) + ElementCountAll(Tail(ns))
\* every listener bound on the render-target element of an Element node is
\* bound under the node's current token
RECURSIVE BoundUnderOwnToken(_, _)
BoundUnderOwnToken(n, el) ==
  CASE n.type = "html" ->
         /\ \A l \in el.listeners : l.signal = n.controller
         /\ \A i \in 1..Min(Len(n.children), Len(el.children)) :
              BoundUnderOwnToken(n.children[i], el.children[i])
    [] n.type = "function" ->
         n.topNode = <<>> \/ BoundUnderOwnToken(n.topNode[1], el)
    [] OTHER -> TRUE
NoDuplicates(seq) == \A i, j \in 1..Len(seq) : i # j => seq[i] # seq[j]

\* C6: at the end of every render or diff pass every Element node of the
\* tree of record owns exactly one token, which is not invalidated and is
\* owned by no other node; diffProps replaced the token of an element at
\* most once in the pass, and the handlers bound are bound under the
\* current token.
C6_OneLiveTokenPerElement ==
  previous # <<>> =>
    /\ Controllers(previous[1]) \cap world.aborted = {}
    /\ 0 \notin Controllers(previous[1])
    /\ Cardinality(Controllers(previous[1])) = ElementCount(previous[1])
    /\ NoDuplicates(world.rebound)
    /\ BoundUnderOwnToken(previous[1], previousElement[1])
\* a pass rebound the handler of a surviving element under a fresh token
C6_Witness ==
  /\ ListDiffed /\ ~world.err
  /\ Len(world.rebound) >= 2
  /\ Len(NewDom) = 1 /\ NewDom[1].listeners # {}
  /\ \A l \in NewDom[1].listeners :
       l.signal >= before.nextId /\ l.signal = previous[1].children[1].controller
  /\ Len(OldDom) = 1 /\ OldDom[1].id = NewDom[1].id /\ OldDom[1].listeners # {}

\* the (event, handler) pairs the truthy on-prefixed props of a node ask for
RECURSIVE WantedHandlers(_)
WantedHandlers(props) ==
  IF props = <<>> THEN {}
  ELSE (IF StartsWithOn(Head(props).k) /\ Truthy(Head(props).v)
        THEN {<<EventName(Head(props).k), Head(props).v.v>>} ELSE {})
         \cup WantedHandlers(Tail(props))
RECURSIVE TruthyOnProps(_)
TruthyOnProps(props) ==
  IF props = <<>> THEN 0
  ELSE (IF StartsWithOn(Head(props).k) /\ Truthy(Head(props).v) THEN 1 ELSE 0)
         + TruthyOnProps(Tail(props))
RECURSIVE HandlersMatch(_, _)
HandlersMatch(n, el) ==
  CASE n.type = "html" ->
         /\ {<<l.type, l.handler>> : l \in el.listeners} = WantedHandlers(n.props)
         /\ Cardinality(el.listeners) = TruthyOnProps(n.props)
         /\ \A i \in 1..Min(Len(n.children), Len(el.children)) :
              HandlersMatch(n.children[i], el.children[i])
    [] n.type = "function" ->
         n.topNode = <<>> \/ HandlersMatch(n.topNode[1], el)
    [] OTHER -> TRUE

\* C7: after any number of diff passes the handlers bound on the
\* render-target element of a surviving Element are exactly the truthy
\* on-prefixed props of the most recent new node (the props the node
\* records), one binding per prop: none left from an earlier pass, none
\* bound twice.
C7_HandlersAreThoseOfLatestProps ==
  previous # <<>> => HandlersMatch(previous[1], previousElement[1])
\* an element went from handler h1 to handler h2 on the same event
C7_Witness ==
  /\ ListDiffed /\ ~world.err
  /\ Len(NewDom) = 1 /\ Len(OldDom) = 1 /\ OldDom[1].id = NewDom[1].id
  /\ {<<l.type, l.handler>> : l \in OldDom[1].listeners} = {<<"click", "h1">>}
  /\ {<<l.type, l.handler>> : l \in NewDom[1].listeners} = {<<"click", "h2">>}

\* deep structural equality of two props objects: the same property names
\* (in any order) with the same values, handlers and undefined included
PropsEqual(p, q) ==
  /\ {p[i].k : i \in 1..Len(p)} = {q[i].k : i \in 1..Len(q)}
  /\ \A i \in 1..Len(p) : Get(q, p[i].k) = p[i].v
\* some property that both objects have differs in value
DifferInAValue(p, q) ==
  \E i \in 1..Len(p) : HasKey(q, p[i].k) /\ Get(q, p[i].k) # p[i].v
\* the last pass diffed, by position, one Component child whose old props
\* have a truthy lazy marker against a Component with the same function
LazyCase ==
  /\ ListDiffed /\ ~world.err
  /\ Len(OldKids) = 1 /\ Len(NewKids) = 1
  /\ OldKids[1].type = "function" /\ NewKids[1].type = "function"
  /\ OldKids[1].value = NewKids[1].value
  /\ Truthy(Get(OldKids[1].props, "lazy"))
Invoked == world.calls # <<>>

\* C8: lazy skip.  Diffing a lazy Component against structurally equal props
\* invokes componentFn zero times and leaves expansion and render target
\* unchanged; diffing it against props that differ in a value re-invokes
\* componentFn and updates the render target.
C8_LazySkip ==
  LazyCase =>
    /\ PropsEqual(OldKids[1].props, NewKids[1].props) =>
         /\ ~Invoked
         /\ previous[1].children[1].topNode = OldKids[1].topNode
         /\ NewDom = OldDom
    /\ DifferInAValue(OldKids[1].props, NewKids[1].props) =>
         /\ Invoked
         /\ Shape(NewDom[1]) = Shape(FreshRenderOf(NewKids[1]))

\* C9: the lazy equality check is a deep structural equality: a lazy
\* Component is skipped only if old.props and new.props agree on every
\* property, handler-valued and undefined-valued ones included and whatever
\* the property order; whenever a property differs the function is invoked.
C9_LazyCheckIsStructural ==
  LazyCase => (~Invoked => PropsEqual(OldKids[1].props, NewKids[1].props))

\* the render target as an observer sees it: node identities, child order,
\* attributes, styles, texts, form state
RECURSIVE Observable(_)
Observable(el) ==
  [id |-> el.id, kind |-> el.kind, tag |-> el.tag, text |-> el.nodeValue,
   attrs |-> el.attrs, style |-> el.style, value |-> el.value,
   checked |-> el.checked,
   children |-> [i \in 1..Len(el.children) |-> Observable(el.children[i])]]
\* the last pass diffed a tree T, whose render target looked like render(T),
\* against a value-equal copy of T
IdempotenceCase ==
  /\ Diffed
  /\ model.view = Described(before.previous[1])
  /\ Shape(before.previousElement[1]) = Shape(FreshRenderOf(model.view))

\* C10: idempotence.  For a tree T with render target R = render(T),
\* diff(T, T', R) with T' a value-equal copy of T leaves R observably
\* identical: no attribute value, style declaration, text value, child order
\* or node identity changes.
C10_Idempotence ==
  IdempotenceCase =>
    /\ ~world.err
    /\ Observable(previousElement[1]) = Observable(before.previousElement[1])
\* a tree with attributes, a style, a handler or several keyed children was
\* diffed against its copy
C10_Witness ==
  /\ IdempotenceCase /\ ListDiffed
  /\ before.op = "dispatch"
  /\ Len(NewKids) >= 1
  /\ \/ NewDom[1].style # {} /\ NewDom[1].attrs # {}
     \/ NewDom[1].listeners # {}
     \/ Len(NewKids) >= 2 /\ AllKeyed(NewKids)
     \/ NewKids[1].type = "function"

\* every node of a DOM child list was created during the last call
AllFresh(els) == \A i \in 1..Len(els) : els[i].id >= before.nextId
\* the structures of a DOM child list
StructuresOf(els) == [i \in 1..Len(els) |-> Structure(els[i])]
\* no old child of the last pass carried a key
NoOldKeys == \A i \in 1..Len(OldKids) : OldKids[i].key = NoKey

C12_AttachRendersIntoTarget ==
  before.op = "attach" =>
    /\ previousElement # <<>>
    /\ content[container] = <<previousElement[1].id>>
    /\ previousElement[1].id >= before.nextId
    /\ Structure(previousElement[1]) = Structure(FreshRender(model))

\* the left fold of update over a sequence of messages
RECURSIVE FoldUpdate(_, _)
FoldUpdate(m, msgs) ==
  IF msgs = <<>> THEN m ELSE FoldUpdate(update(m, Head(msgs)), Tail(msgs))
\* one cycle was run: the model is the fold of update over the messages
\* dispatched and the focus identifier is the one of the element that was
\* focused when the call began
CycleRan ==
  /\ model = FoldUpdate(InitModel(family), history)
  /\ model.n = dispatches
  /\ focusedElementId =
       (IF before.activeElement = 0 \/ before.previousElement = <<>> THEN ""
        ELSE IdAttrOf(before.previousElement[1], before.activeElement))
\* the previous-tree reference and the root render-target node are the
\* objects they were when the call began
SameRootObjects ==
  /\ previousRef = before.previousRef
  /\ previousElement # <<>> /\ before.previousElement # <<>>
  /\ previousElement[1].id = before.previousElement[1].id

\* C13 as stated: every dispatch runs one cycle and ends with the
\* previous-tree reference and the root render-target node being the same
\* objects as before it.
C13_EveryDispatchKeepsRoot ==
  before.op = "dispatch" => (CycleRan /\ SameRootObjects)
\* C13 (amended): each dispatch(msg) captures the focus identifier, applies
\* update once (after n dispatches the model is the left fold of update
\* over the n messages in order), evaluates the view and, when a previous
\* tree exists, diffs against it, leaving the previous-tree reference and
\* the root render-target node the same objects as before; when no
\* previous tree exists yet the cycle renders the tree afresh instead.
C13_DispatchCycle ==
  before.op = "dispatch" =>
    /\ CycleRan
    /\ IF before.previous # <<>> /\ before.previousElement # <<>>
       THEN SameRootObjects
       ELSE /\ previousRef >= before.nextId
            /\ previousElement # <<>> /\ previousElement[1].id >= before.nextId
\* a second dispatch diffed a changed view into the root of the first
C13_Witness ==
  /\ before.op = "dispatch" /\ dispatches = 2
  /\ history[1] # history[2]
  /\ before.previous # <<>>
  /\ previousElement[1].id = before.previousElement[1].id

\* the tree description contains an Element whose id prop is the identifier
RECURSIVE TreeHasId(_, _)
TreeHasId(tmpl, id) ==
  \/ tmpl.type = "html" /\ Get(tmpl.props, "id") = Str(id)
  \/ \E i \in 1..Len(tmpl.children) : TreeHasId(tmpl.children[i], id)

\* C14: focus preservation.  If an element with a non-empty identifier is
\* focused when dispatch starts and the tree the cycle produces still has
\* an element with that identifier (at the same or another position, reused
\* or recreated), an element with that identifier has focus when dispatch
\* returns.
C14_FocusPreserved ==
  (before.op = "dispatch" /\ focusedElementId # ""
     /\ TreeHasId(model.view, focusedElementId)) =>
    /\ activeElement # 0
    /\ activeElement \in DomIds(previousElement[1])
    /\ IdAttrOf(previousElement[1], activeElement) = focusedElementId
\* the focused input was destroyed and the input recreated under its
\* identifier at another position has the focus
C14_Witness ==
  /\ before.op = "dispatch" /\ focusedElementId = "a"
  /\ before.activeElement # 0
  /\ activeElement # before.activeElement
  /\ activeElement \in DomIds(previousElement[1])
  /\ IdAttrOf(previousElement[1], activeElement) = "a"
  /\ previousElement[1].children[1].kind = "text"

\* C15: when the root the view produces differs in kind or tag from the
\* root of the previous tree the Driver replaces the root render-target
\* node by a fresh render and hands no mismatched pair to diff: the root
\* render-target node always has the kind and tag of the current view root.
C15_RootHasKindOfView ==
  /\ \A k \in 1..Len(world.pairs) :
       world.pairs[k].via = "root" =>
         /\ world.pairs[k].otype = world.pairs[k].ntype
         /\ world.pairs[k].otype \in {"html", "function"} =>
              world.pairs[k].ovalue = world.pairs[k].nvalue
  /\ previousElement # <<>> =>
       /\ previousElement[1].kind = FreshRender(model).kind
       /\ previousElement[1].tag = FreshRender(model).tag

\* tag, props and children of an Element node, its descendants included
RECURSIVE ValueOf(_)
ValueOf(n) ==
  [type |-> n.type, value |-> n.value, props |-> n.props,
   children |-> [i \in 1..Len(n.children) |-> ValueOf(n.children[i])]]
\* the expansion of every Component node of a tree is what its function
\* returns for the node's props
RECURSIVE ExpansionsCurrent(_)
ExpansionsCurrent(n) ==
  /\ n.type = "function" =>
       /\ n.topNode # <<>>
       /\ ValueOf(n.topNode[1]) = ValueOf(ComponentFn(n.value.v, n.props))
  /\ \A i \in 1..Len(n.children) : ExpansionsCurrent(n.children[i])
  /\ \A i \in 1..Len(n.topNode) : ExpansionsCurrent(n.topNode[i])

\* C16: a Component node's expansion is never stale outside a diff pass.
\* After render and after every completed diff the expansion of each
\* Component node of the tree of record is value-equal (tag, props,
\* children) to componentFn applied to the node's current props.
C16_ExpansionNeverStale ==
  (previous # <<>> /\ ~world.err) => ExpansionsCurrent(previous[1])

\* no two children of any parent in a tree share a non-absent key
RECURSIVE KeysUniqueIn(_)
KeysUniqueIn(n) ==
  /\ UniqueKeys(n.children)
  /\ \A i \in 1..Len(n.children) : KeysUniqueIn(n.children[i])
  /\ \A i \in 1..Len(n.topNode) : KeysUniqueIn(n.topNode[i])

\* C17: keys are unique among siblings in the tree of record.  If every
\* new tree handed to the Reconciler has unique keys among siblings, then
\* after render and after every completed diff no two children of the same
\* parent in the tree of record carry the same non-absent key.
C17_SiblingKeysUnique ==
  (/\ previous # <<>>
   /\ ~world.err
   /\ KeysUniqueIn(InitModel(family).view)
   /\ \A k \in 1..Len(history) : KeysUniqueIn(history[k]))
    => KeysUniqueIn(previous[1])

\* an unkeyed old child and an unkeyed new child of the same kind and the
\* same tag or component function
UnkeyedSurvivor(a, b) ==
  a.key = NoKey /\ b.key = NoKey /\ ~KindOrTagDiffers(a, b)

\* C18 as stated: for an unkeyed child at index i of the children
\* sequences handed to diffChildren whose old and new versions have the
\* same kind and tag, the render-target node at index i after the pass is
\* the one that was at index i before it.
C18_SurvivorKeepsNodeAtIndex ==
  (ListDiffed /\ ~world.err) =>
    \A i \in 1..Min(Len(OldKids), Len(NewKids)) :
      UnkeyedSurvivor(Described(OldKids[i]), NewKids[i]) =>
        /\ i <= Len(NewDom)
        /\ NewDom[i].id = OldDom[i].id

\* C18: a node that survives a diff keeps its render-target node.  For an
\* unkeyed old child found at index i by the main loop of diffChildren
\* (that is, after the old children whose keys are absent from the new
\* sequence were removed) whose new version at i is unkeyed and of the same
\* kind and tag or component function, the step leaves the parent's child
\* list as it was, and at the root the node at index i after the pass is
\* the one the step found there.
C18_SurvivorKeepsNode ==
  \A k \in 1..Len(world.steps) :
    UnkeyedSurvivor(world.steps[k].old, world.steps[k].new) =>
      /\ world.steps[k].post = world.steps[k].pre
      /\ (~world.err /\ k \in RootSteps) =>
           /\ world.steps[k].i <= Len(NewDom)
           /\ NewDom[world.steps[k].i].id = world.steps[k].pre[world.steps[k].i]
\* an unkeyed <li> survived at index 2 of the root's list while another
\* child of the list was added, moved, removed or replaced in the pass
C18_Witness ==
  /\ ListDiffed /\ ~world.err
  /\ \E k \in RootSteps :
       /\ UnkeyedSurvivor(world.steps[k].old, world.steps[k].new)
       /\ world.steps[k].old.type = "html"
       /\ world.steps[k].i = 2
       /\ NewDom[2].id = world.steps[k].pre[2]
  /\ IdsOf(NewDom) # IdsOf(OldDom)

\* the last eldoraJSX call returned an Element / a Component node
ElementMade == jsx.node # <<>> /\ jsx.type.t = "str"
ComponentMade == jsx.node # <<>> /\ jsx.type.t = "fn"
\* one Primitive node per bare scalar of a children value, with that value,
\* in the original order; nodes passed through; nothing for undefined
WrapItem(c) == IF c.t \in {"str", "num"} THEN VPrimitive(c) ELSE c.o[1]
WrapScalars(c) ==
  IF c.t = "undef" THEN <<>>
  ELSE IF c.t = "arr" THEN [i \in 1..Len(c.o) |-> WrapItem(c.o[i])]
  ELSE <<WrapItem(c)>>

\* C19: the Tree Constructor.  Given a tag string eldoraJSX returns an
\* Element node whose props no longer contain `children`, whose children
\* are the normalized children (every bare scalar wrapped) in order, whose
\* key is the key argument and whose listener-lifetime token is fresh and
\* not invalidated; given a function it returns a Component node with the
\* props bag unchanged, no expansion, the key forwarded, and the function
\* not invoked.
C19_TreeConstructor ==
  /\ ElementMade =>
       /\ jsx.node[1].type = "html" /\ jsx.node[1].value = jsx.type
       /\ ~HasKey(jsx.node[1].props, "children")
       /\ jsx.node[1].props = Without(jsx.props, "children")
       /\ jsx.node[1].children = WrapScalars(Get(jsx.props, "children"))
       /\ jsx.node[1].key = jsx.key
       /\ jsx.node[1].controller >= jsx.nextId
       /\ jsx.node[1].controller \notin ControllersOf(jsx.node[1].children)
       /\ jsx.node[1].controller \notin world.aborted
  /\ ComponentMade =>
       /\ jsx.node[1].type = "function" /\ jsx.node[1].value = jsx.type
       /\ jsx.node[1].props = jsx.props
       /\ jsx.node[1].topNode = <<>>
       /\ jsx.node[1].key = jsx.key
       /\ world.calls = <<>>

\* C20: child normalization wraps every bare scalar.  For a children value
\* that is a single string or number (0 and the empty string included) or
\* a sequence containing strings and numbers, the Element's children
\* sequence has one Primitive node per scalar, with that value, in the
\* original order, and the other children are passed through unchanged.
C20_EveryScalarWrapped ==
  (ElementMade /\ HasKey(jsx.props, "children")) =>
    LET c == Get(jsx.props, "children")
        items == IF c.t = "arr" THEN c.o ELSE <<c>>
    IN /\ Len(jsx.node[1].children) = Len(items)
       /\ \A i \in 1..Len(items) :
            IF items[i].t \in {"str", "num"}
            THEN /\ jsx.node[1].children[i].type = "primitive"
                 /\ jsx.node[1].children[i].value = items[i]
                 /\ jsx.node[1].children[i].key = NoKey
            ELSE jsx.node[1].children[i] = items[i].o[1]

\* the last eldoraJSX call was given a type that is neither a string nor a
\* function
InvalidTypeGiven == jsx.calls > 0 /\ jsx.type.t \notin {"str", "fn"}

\* C21: the Tree Constructor called with a first argument that is neither
\* a string nor a function fails with an error and returns no node: no
\* controller is created, the props bag is left as it was, and no
\* render-target node exists or is attached because of the call.
C21_InvalidTypeThrows ==
  InvalidTypeGiven =>
    /\ world.err
    /\ jsx.node = <<>>
    /\ world.nextId = jsx.nextId
    /\ jsx.after = jsx.props
    /\ previousElement = <<>>
    /\ \A t \in Targets : content[t] = <<>>
\* the second call was given the number 7 as type, with children in the
\* bag, after a first call that returned a node
C21_Witness ==
  /\ InvalidTypeGiven
  /\ jsx.calls = 2
  /\ world.nextId > JSXChild.w.nextId
  /\ HasKey(jsx.props, "children")
  /\ world.err

\* the children of the root Element of the tree of record that carry a ref
RefChildren ==
  {i \in 1..Len(previous[1].children) :
     /\ previous[1].children[i].type = "html"
     /\ HasKey(previous[1].children[i].props, "ref")}
\* how often a function was invoked in the last pass
Invocations(fn) == Cardinality({k \in 1..Len(world.calls) : world.calls[k] = fn})

\* C22: when render creates the render-target node of an Element whose
\* props carry a ref object, ref.current is set to that node and
\* ref.onMount is invoked exactly once with it; a later diff pass that keeps
\* the node does not invoke onMount again.
C22_RefMountedOnce ==
  (previous # <<>> /\ ~world.err /\ previous[1].type = "html") =>
    \A i \in RefChildren :
      i <= Len(NewDom) =>
        /\ Get(Get(previous[1].children[i].props, "ref").o, "current") # Null
        /\ Invocations("onMount")
             = (IF NewDom[i].id >= before.nextId THEN 1 ELSE 0)

\* a step of the main loop that handed a pair of Elements to diff
ElementPairDiffed(st) ==
  /\ st.branch \in {"move", "position"}
  /\ st.oldAfter.type = "html"
  /\ st.new.type = "html"

\* C23: after the property diff of an Element pair the old node's recorded
\* props are exactly the new node's props: every key removed in the new
\* node is absent from the record and no old value is retained.
C23_RecordedPropsAreNew ==
  /\ \A k \in 1..Len(world.steps) :
       ElementPairDiffed(world.steps[k]) =>
         world.steps[k].oldAfter.props = world.steps[k].new.props
  /\ (ListDiffed /\ previous # <<>>) => previous[1].props = model.view.props
\* an Element pair was diffed whose old props had a key the new props lack
\* and another key with a different value
C23_Witness ==
  \E k \in 1..Len(world.steps) :
    /\ ElementPairDiffed(world.steps[k])
    /\ world.steps[k].branch = "position"
    /\ \E e \in 1..Len(world.steps[k].old.props) :
         ~HasKey(world.steps[k].new.props, world.steps[k].old.props[e].k)
    /\ \E e \in 1..Len(world.steps[k].old.props) :
         /\ HasKey(world.steps[k].new.props, world.steps[k].old.props[e].k)
         /\ Get(world.steps[k].new.props, world.steps[k].old.props[e].k)
              # world.steps[k].old.props[e].v
    /\ world.steps[k].oldAfter.props = world.steps[k].new.props

\* the declarations of a style map, as the render target stores them
Declarations(x) ==
  IF x.t = "obj" THEN {<<x.o[e].k, String(x.o[e].v)>> : e \in 1..Len(x.o)}
  ELSE {}
\* the last pass diffed one <input> against one <input> below the root
InputPairDiffed ==
  /\ ListDiffed /\ ~world.err
  /\ Len(OldKids) = 1 /\ Len(NewKids) = 1
  /\ OldKids[1].type = "html" /\ NewKids[1].type = "html"
  /\ OldKids[1].value = NewKids[1].value
  /\ Len(NewDom) = 1 /\ Len(OldDom) = 1
OldStyle == Get(OldKids[1].props, "style")
NewStyle == Get(NewKids[1].props, "style")
StylesEqual ==
  OldStyle.t = NewStyle.t /\ Declarations(OldStyle) = Declarations(NewStyle)

ChildById(els, id) == SelectSeq(els, LAMBDA e : e.id = id)
\* a root-level step that handed two Primitive nodes to diff in place
PrimitivePairDiffed(k) ==
  /\ k \in RootSteps
  /\ world.steps[k].branch = "position"
  /\ world.steps[k].old.type = "primitive"
  /\ world.steps[k].new.type = "primitive"

\* C25: primitive diff writes only on change.  If old.value and new.value
\* are strictly unequal, old.value becomes new.value and the text node's
\* content becomes its string form; if they are equal, the old node and the
\* text node are as they were.
C25_PrimitiveWritesOnChange ==
  (ListDiffed /\ ~world.err) =>
    \A k \in 1..Len(world.steps) :
      PrimitivePairDiffed(k) =>
        LET st == world.steps[k]
            was == ChildById(OldDom, st.pre[st.i])
            is == ChildById(NewDom, st.pre[st.i])
        IN /\ Len(was) = 1 /\ Len(is) = 1
           /\ IF st.old.value # st.new.value
              THEN /\ st.oldAfter.value = st.new.value
                   /\ is[1].nodeValue = String(st.new.value)
              ELSE /\ st.oldAfter = st.old
                   /\ is[1] = was[1]
\* the text "5" was diffed against the number 5: the values are strictly
\* unequal, the old node holds the number and the text node reads "5"
C25_Witness ==
  /\ ListDiffed /\ ~world.err
  /\ \E k \in 1..Len(world.steps) :
       /\ PrimitivePairDiffed(k)
       /\ world.steps[k].old.value = Str("5")
       /\ world.steps[k].new.value = Num("5")
       /\ world.steps[k].oldAfter.value = Num("5")
       /\ NewDom[world.steps[k].i].nodeValue = "5"

\* the ids of the render-target nodes carrying the given id attribute
RECURSIVE NodesWithId(_, _)
NodesWithId(el, id) ==
  (IF el.kind = "element" /\ <<"id", id>> \in el.attrs THEN {el.id} ELSE {})
    \cup UNION {NodesWithId(el.children[i], id) : i \in 1..Len(el.children)}
\* the last call was a dispatch that diffed, made while no element was
\* focused or with a captured identifier that no element carries after
\* the diff
MissingTarget ==
  /\ before.op = "dispatch" /\ Diffed
  /\ \/ before.activeElement = 0
     \/ NodesWithId(previousElement[1], focusedElementId) = {}
\* the diff of the last dispatch, computed on its own from the trees the
\* dispatch began with
DiffAlone ==
  LET Expanded(c) ==
        diff(c.w, before.previous[1], c.node, before.previousElement[1], "root")
  IN Expanded(Construct(World(before.nextId, {}), view(model)))
\* the model update and the diff were applied and nothing else raised an
\* error
UpdateAndDiffApplied ==
  /\ CycleRan
  /\ previous = <<DiffAlone.old>>
  /\ Structure(previousElement[1]) = Structure(DiffAlone.el)
  /\ world.err = DiffAlone.w.err

RECURSIVE Kept(_, _, _)
Kept(xs, keys, live) ==
  IF xs = <<>> \/ keys = <<>> THEN <<>>
  ELSE (IF Head(keys) = NoKey \/ Head(keys) \in live THEN <<Head(xs)>> ELSE <<>>)
         \o Kept(Tail(xs), Tail(keys), live)

\* C27: in diffChildren every old child whose key is absent from the new
\* key map is removed from both the render target and the old sequence
\* before any positional processing starts, and after this pass the old
\* key map holds the current index of every remaining keyed old child.
C27_RemovalBeforePositions ==
  \A k \in 1..Len(world.removals) :
    LET r == world.removals[k]
    IN /\ r.steps = 0
       /\ r.postKeys = Kept(r.preKeys, r.preKeys, r.newKeys)
       /\ r.postIds = Kept(r.preIds, r.preKeys, r.newKeys)
       /\ \A j \in 1..Len(r.postKeys) :
            r.postKeys[j] # NoKey =>
              /\ r.postKeys[j] \in DOMAIN r.km
              /\ r.km[r.postKeys[j]] = j

\* C28: domChildSwap(parent, i, j) for any two distinct valid indices,
\* adjacent or not and in either order, including when one is the last
\* child, exchanges the render-target nodes at positions i and j, keeps
\* every other child at its position, and neither creates nor removes any
\* node.
C28_SwapExchangesTwoNodes ==
  swap.calls > 0 =>
    /\ Len(swap.kids) = Len(swap.pre)
    /\ swap.kids[swap.destination] = swap.pre[swap.from]
    /\ swap.kids[swap.from] = swap.pre[swap.destination]
    /\ \A k \in 1..Len(swap.pre) :
         k \notin {swap.destination, swap.from} => swap.kids[k] = swap.pre[k]
\* the last child was swapped with a child that is not next to it, the
\* last child being the destination, on a list an earlier swap had changed
C28_Witness ==
  /\ swap.calls = 2
  /\ swap.destination = Len(swap.pre)
  /\ swap.from < swap.destination - 1
  /\ IdsOf(swap.pre) # IdsOf(ChildList(Len(swap.pre)))
  /\ swap.kids[swap.from] = swap.pre[swap.destination]

\* C29: at every step of diffChildren the render-target parent has exactly
\* as many children as the old sequence has entries, and the child at
\* index i is the node that represents old child i (a text node with the
\* value of a Primitive, an element of the same tag and with children that
\* represent its children for an Element, the node of the expansion for a
\* Component); the same holds between the tree of record and the render
\* target after every call.
C29_RenderTargetAligned ==
  /\ \A k \in 1..Len(world.removals) : world.removals[k].aligned
  /\ \A k \in 1..Len(world.steps) : world.steps[k].aligned
  /\ previous # <<>> =>
       Represents(previousElement[1], previous[1])

\* a pass whose first loop removed a keyed child of the root and whose main
\* loop then moved a child by key, the parent being aligned at each step
C29_Witness ==
  /\ ListDiffed /\ ~world.err
  /\ \E k \in 1..Len(world.removals) :
       /\ world.removals[k].parent = previousElement[1].id
       /\ Len(world.removals[k].postIds) < Len(world.removals[k].preIds)
       /\ world.removals[k].aligned
  /\ \E k \in RootSteps :
       world.steps[k].branch = "move" /\ world.steps[k].aligned
  /\ Represents(previousElement[1], previous[1])

\* C30: in the key-move branch of diffChildren the pair handed to diff
\* after the swap always has the same kind and the same tag or component
\* function: a keyed child that moved and also changed kind or tag is
\* never diffed in place.
C30_MovedPairsAgree ==
  \A k \in 1..Len(world.pairs) :
    world.pairs[k].via = "move" =>
      /\ world.pairs[k].otype = world.pairs[k].ntype
      /\ world.pairs[k].otype \in {"html", "function"} =>
           world.pairs[k].ovalue = world.pairs[k].nvalue

\* C31: after diffChildren(old, new, parent) the old sequence records the
\* new sequence's keys: for every index i, old[i].key equals new[i].key,
\* also when the pair at i was matched by position and diffed in place.
C31_OldRecordsNewKeys ==
  (ListDiffed /\ ~world.err) =>
    /\ Len(previous[1].children) = Len(NewKids)
    /\ \A i \in 1..Len(NewKids) : previous[1].children[i].key = NewKids[i].key

\* C32: the Driver refocuses only the identifier captured at the start of
\* the same dispatch.  A render cycle that captured no focused element (a
\* dispatch made while no element was focused, or an attach) never moves
\* the focus to an element: after it the focus is where it was, or on no
\* element.
C32_NoStaleRefocus ==
  (\/ before.op = "attach"
   \/ (before.op = "dispatch" /\ before.activeElement = 0))
    => activeElement \in {before.activeElement, 0}

\* a prop key that is handled as a generic attribute
GenericKey(k) ==
  ~StartsWithOn(k) /\ k \notin {"className", "style", "value", "checked"}

\* C33: after the property diff of an Element pair, every generic attribute
\* (not an event handler, className, style, value or checked) on the
\* render target has the string form of the new prop value, and an
\* attribute whose key is absent from the new props is absent from the
\* render target.
C33_GenericAttributesFollowNew ==
  InputPairDiffed =>
    /\ \A e \in 1..Len(NewKids[1].props) :
         GenericKey(NewKids[1].props[e].k) =>
           <<NewKids[1].props[e].k, String(NewKids[1].props[e].v)>>
             \in NewDom[1].attrs
    /\ \A a \in NewDom[1].attrs :
         a[1] # "class" => HasKey(NewKids[1].props, a[1])

\* C34: diff terminates: on every child list the keyed-removal loop makes
\* at most as many passes as the old sequence had entries, the main loop
\* makes at most as many passes as the longer of the old sequence left by
\* the removal loop and the new sequence (exactly that many when nothing
\* is thrown), and the old sequence is never longer after the main loop
\* than the longer of the two, so that it only grows up to the length of
\* the new sequence
LongerOf(a, b) == IF a > b THEN a ELSE b
C34_LoopsFinish ==
  \A k \in 1..Len(world.loops) :
    LET r == world.loops[k]
    IN /\ r.removalPasses <= r.preLen
       /\ r.mainPasses <= LongerOf(r.keptLen, r.newLen)
       /\ r.grownLen <= LongerOf(r.keptLen, r.newLen)
       /\ r.grownLen > r.keptLen => r.grownLen <= r.newLen
       /\ ~r.err =>
            /\ r.removalPasses = r.preLen
            /\ r.mainPasses = LongerOf(r.keptLen, r.newLen)
            /\ r.removedCount = r.mainPasses - r.newLen
\* a child list whose removal loop removed an entry and whose main loop
\* then grew the old sequence
C34_Witness ==
  /\ ~world.err
  /\ \E k \in 1..Len(world.loops) :
       /\ world.loops[k].keptLen < world.loops[k].preLen
       /\ world.loops[k].grownLen > world.loops[k].keptLen

\* how often a listener occurs in an array of listeners
CountOf(arr, listener) == Cardinality({i \in 1..Len(arr) : arr[i] = listener})
\* C35: when the browser has dispatched an event of a supported type at a
\* target, the listeners invoked are exactly those registered for that type
\* and that target when the event was dispatched, in registration order,
\* once per registration (so none registered for another type, another
\* element or an ancestor of the target)
C35_DeliversToRegistered ==
  (em.op = "event" /\ em.type \in eventTypes) =>
    em.invoked = RegisteredFor(em.before, em.type, em.element)

\* C36: removeEventListener(element, type, listener) removes the earliest
\* registration of the listener from the array of that element and type
\* and leaves every other array, and the keys of the maps, as they were;
\* it changes nothing when the listener is not registered there; and
\* addEventListener followed by removeEventListener with the same
\* arguments leaves every (type, element) pair with the same listeners,
\* each as often as before
C36_RemovesEarliest ==
  /\ em.op = "remove" =>
       LET arr == RegisteredFor(em.before, em.type, em.element)
           hits == {i \in 1..Len(arr) : arr[i] = em.listener}
       IN IF hits = {} THEN em.listeners = em.before
          ELSE LET first == CHOOSE i \in hits : \A j \in hits : i <= j
               IN /\ RegisteredFor(em.listeners, em.type, em.element)
                       = SubSeq(arr, 1, first - 1) \o SubSeq(arr, first + 1, Len(arr))
                  /\ DOMAIN em.listeners = DOMAIN em.before
                  /\ \A t \in DOMAIN em.before :
                       /\ DOMAIN em.listeners[t] = DOMAIN em.before[t]
                       /\ \A e \in DOMAIN em.before[t] :
                            <<t, e>> # <<em.type, em.element>> =>
                              em.listeners[t][e] = em.before[t][e]
  /\ \A t \in EventTypeNames, e \in EventElements, l \in EventListeners :
       LET back == removeEventListener(addEventListener(em.listeners, e, t, l),
                                       e, t, l)
       IN \A t2 \in EventTypeNames, e2 \in EventElements, l2 \in EventListeners :
            CountOf(RegisteredFor(back, t2, e2), l2)
              = CountOf(RegisteredFor(em.listeners, t2, e2), l2)
\* a listener registered twice with another one between the two
\* registrations has just been removed once, and another array holds a
\* registration of the same listener
C36_Witness ==
  /\ em.op = "remove"
  /\ Len(RegisteredFor(em.before, em.type, em.element)) = 3
  /\ CountOf(RegisteredFor(em.before, em.type, em.element), em.listener) = 2
  /\ RegisteredFor(em.before, em.type, em.element)[2] # em.listener
  /\ Len(RegisteredFor(em.listeners, em.type, em.element)) = 2

\* C37: when handleEvent has run for an event, every listener registered
\* for the event's type and target when it began has been invoked exactly
\* as often as it was registered, whatever the listeners removed meanwhile
C37_EveryListenerOnce ==
  (em.op = "event" /\ em.handled) =>
    \A l \in EventListeners :
      CountOf(em.invoked, l)
        = CountOf(RegisteredFor(em.before, em.type, em.element), l)
====
